---- MODULE Spec2Model ----
(***************************************************************************)
(* The conversation server of ElizaBackrooms (src/server/index.ts, first   *)
(* copy, lines 1-1173): the ConversationState store, the admin control     *)
(* routes, the self-rescheduling turn cycle, the archive writers and      *)
(* readers, the broadcast hub, the scheduled gallery generator             *)
(* (src/unnamed/part_000) and the browser's viewer (src/src/main.ts).      *)
(*                                                                         *)
(* One step of the model is one macrotask of the Node event loop: an HTTP  *)
(* handler, a timer callback, or the continuation of an async function     *)
(* after an awaited external call returns.  Code between two awaits of an  *)
(* external call runs without interleaving, so it is one action.           *)
(*                                                                         *)
(* Time is abstracted: Date.now() is not modelled (startedAt, timestamp);  *)
(* the hour of the wall clock that names archive files is `hour`, and      *)
(* `now >= nextImageTime` is the boolean `imageDue`.                       *)
(***************************************************************************)
EXTENDS Integers, Sequences, FiniteSets, TLC

\* ------------------------------------------------------------------ bounds
\* The history kept by the server (state.messages.slice(-100)).
MAX_MESSAGES == 100
\* Effective startConversation() runs (turn cycles created) per process, and
\* persona turns begun per process, under Spec.
MaxStarts == 3
MaxTurns == 3
\* The same under AdminSpec, ImageSpec, FaultSpec, LiveSpec, ArchiveSpec,
\* SinkSpec, CooldownSpec and GenSpec.
AdminMaxStarts == 1
AdminMaxTurns == 1
ImageMaxStarts == 2
ImageMaxTurns == 2
FaultMaxStarts == 1
FaultMaxTurns == 1
LiveMaxStarts == 2
LiveMaxTurns == 2
ArchiveMaxStarts == 1
ArchiveMaxTurns == 1
SinkMaxStarts == 1
SinkMaxTurns == 1
CooldownMaxStarts == 1
CooldownMaxTurns == 2
GenMaxStarts == 1
GenMaxTurns == 2
\* Last hour of a day and last day of the wall clock (archive file names
\* are a date and an hour).
MaxHour == 1
MaxDate == 1
\* Authorized manual archive runs per process.
MaxArchives == 1
\* Images the scheduled generator records in its gallery.
MaxImages == 3
\* Connections accepted by /api/stream per process.
MaxViewers == 2
\* Events written to one connection under ViewerSpec.
MaxEvents == 5
\* Starts and turns under HubSpec.
HubMaxStarts == 1
HubMaxTurns == 2

\* ------------------------------------------------------------- vocabulary
\* JavaScript's undefined, for an unset environment variable or body field.
Undefined == "<undefined>"
\* Values of process.env.ADMIN_CODE.
Secrets == {Undefined, "", "s3cret"}
\* Values of req.body.adminCode.
Codes == {Undefined, "", "s3cret", "wrong"}

\* What generateElizaResponse returns: a text without or with an
\* [IMAGE: ...] marker.
ResponseKinds == {"text", "marker"}

\* The canned text generateElizaResponse returns when the agent call failed.
Fallback == "fallback"

\* The canned text it returns when the runtime has no message service.
NoServiceText == "unstable"

\* What the external runtime does in one call of generateElizaResponse:
\* whether runtime.messageService is set, whether ensureConnection succeeds,
\* and what handleMessage does: it throws, or resolves to nothing, to a
\* result without responseContent, to an empty text, to a text, or to a
\* text with an [IMAGE: ...] marker.
HandleResults == {"throws", "nothing", "no-content", "empty", "text", "marker"}
RuntimeOutcomes ==
    [service : BOOLEAN, room : BOOLEAN, result : HandleResults]

\* A state file whose content JSON.parse rejects.
Corrupt == [corrupt |-> TRUE]

\* conversationInterval === null
NoTimer == 0

VARIABLES
    adminSecret,           \* process.env.ADMIN_CODE
    autoStart,             \* process.env.AUTO_START === 'true'
    agentsReady,           \* alphaRuntime && omegaRuntime
    diskFaulty,            \* writeFileSync may throw in this environment
    memoryFaulty,          \* agentMemory lacks a persona: line 826 may throw
    githubToken,           \* process.env.GITHUB_TOKEN is set
    archiveDirLost,        \* ARCHIVES_PATH is not writable: every write throws
    budget,                \* the bounds of the run: [starts, turns]
    phase,                 \* "booting" until app.listen's callback has run
    state,                 \* let state: ConversationState
    file,                  \* data/live-conversation.json: <<>> or <<doc>>
    conversationInterval,  \* the stored timer handle: a loop id or NoTimer
    loops,                 \* the runWithRandomDelay closures, by creation no.
    nextLoop,              \* turn cycles created so far
    nextId,                \* fresh message ids
    nextImageIsAlpha,      \* let nextImageIsAlpha
    imageDue,              \* Date.now() >= nextImageTime
    hour,                  \* wall-clock hour of the day
    date,                  \* wall-clock date
    lastArchiveDate,       \* let lastArchiveDate
    archiveDue,            \* the hourly interval of startArchiveJob elapsed
    localArchives,         \* ARCHIVES_PATH: hour -> <<>> or <<doc>>
    remoteArchives,        \* GitHub archives/: hour -> <<>> or <<doc>>
    archiveRuns,           \* authorized manual archive runs so far
    archivesCache,         \* let archivesCache: the remote listing kept
    archivesCacheFresh,    \* Date.now() - archivesCacheTime < ARCHIVES_CACHE_TTL
    remoteStray,           \* files in GitHub archives/ named like local ones
    galleryFile,           \* gallery-index.json of ScheduledImageGenerator
    galleryImages,         \* its galleryImages: the crediting personas
    nextAgent,             \* its nextAgent
    isGenerating,          \* its isGenerating
    generationAwaited,     \* the promise its run awaits can still settle
    clients,               \* const clients: the subscribed responses
    nextClient,            \* connections accepted by /api/stream so far
    received,              \* what each connection has been written
    viewer,                \* a browser running BackroomsViewer (main.ts)
    emitted,               \* events broadcast by the latest step
    last,                  \* the latest step: operation, HTTP status, loop
    appended               \* history: messages appended since the last reset

vars == <<adminSecret, autoStart, agentsReady, diskFaulty, memoryFaulty,
          githubToken, archiveDirLost, budget, phase, state, file, conversationInterval, loops, nextLoop,
          nextId, nextImageIsAlpha, imageDue, hour, date, lastArchiveDate,
          archiveDue, localArchives, remoteArchives, archiveRuns,
          archivesCache, archivesCacheFresh, remoteStray,
          galleryFile, galleryImages, nextAgent, isGenerating,
          generationAwaited,
          clients, nextClient, received, viewer, emitted, last, appended>>

env == <<adminSecret, autoStart, agentsReady, diskFaulty, memoryFaulty,
        githubToken, archiveDirLost, remoteStray, budget>>

\* The subscriptions of the broadcast hub.
hub == <<clients, nextClient, viewer>>

\* The scheduled image generator (src/unnamed/part_000).
gallery == <<galleryFile, galleryImages, nextAgent, isGenerating,
             generationAwaited>>

\* The cached remote listing and whether it is still within its TTL.
cache == <<archivesCache, archivesCacheFresh>>

\* The date, the last archived date and the pending hourly run.
calendar == <<date, lastArchiveDate, archiveDue>>

\* The turn cycles a run can create.
LoopIds == DOMAIN loops

\* ------------------------------------------------------------ pure helpers
\* interface Message (timestamp left out); image is "has an image URL".
Message(id, entity, content, image) ==
    [id |-> id, entity |-> entity, content |-> content, image |-> image]

\* initMessage of startConversation: id 'init-0', entity 'SYSTEM'.
InitMessage == Message(0, "SYSTEM", "init", FALSE)

\* The fresh state of loadState's fallback and of /api/reset.
DefaultState ==
    [messages |-> <<>>, isRunning |-> FALSE, currentTurn |-> "A",
     totalExchanges |-> 0]

\* entityName of runConversationTurn.
EntityName(isAlphaTurn) == IF isAlphaTurn THEN "CLAUDE_ALPHA" ELSE "CLAUDE_OMEGA"

\* Array.prototype.slice(-n).
SliceLast(s, n) ==
    IF Len(s) <= n THEN s ELSE SubSeq(s, Len(s) - n + 1, Len(s))

\* Array.prototype.reverse().
Reverse(s) == [i \in 1..Len(s) |-> s[Len(s) + 1 - i]]

\* Truncation that keeps the oldest messages: slice(0, 100).
MutTruncateKeepsOldest(msgs) ==
    IF Len(msgs) > MAX_MESSAGES THEN SubSeq(msgs, 1, MAX_MESSAGES) ELSE msgs

\* if (state.messages.length > 100) state.messages = state.messages.slice(-100)
Truncate(msgs) ==
    IF Len(msgs) > MAX_MESSAGES THEN SliceLast(msgs, MAX_MESSAGES) ELSE msgs

\* isValidAdmin without `if (!adminCode) return false`.
MutIsValidAdminNoSecretCheck(code) == code = adminSecret

\* isValidAdmin: a falsy secret rejects every code, else exact equality.
isValidAdmin(code) ==
    IF adminSecret \in {Undefined, ""} THEN FALSE ELSE code = adminSecret

\* A saveState that writes nothing.
MutSaveStateSkipsWrite(f, st, ok) == f

\* saveState's effect on the file f: writeFileSync succeeded or threw (caught).
saveState(f, st, ok) == IF ok THEN <<st>> ELSE f

\* Outcomes of a write in this environment.
WriteOutcomes == IF diskFaulty THEN BOOLEAN ELSE {TRUE}

\* Outcomes of a write into the archive directory.
ArchiveWriteOutcomes == IF archiveDirLost THEN {FALSE} ELSE WriteOutcomes

\* Whether the bookkeeping after broadcast (lines 810-827) throws.
ThrowOutcomes == IF memoryFaulty THEN BOOLEAN ELSE {FALSE}

\* A load that falls back to the default only when the file is absent.
MutLoadStateKeepsRunning(f) ==
    IF f = <<>> THEN DefaultState
    ELSE IF "corrupt" \in DOMAIN f[1]
         THEN [DefaultState EXCEPT !.isRunning = TRUE]
         ELSE f[1]

\* loadState: the parsed document, or the default when the file is absent
\* or JSON.parse throws.
loadState(f) ==
    IF f = <<>> THEN DefaultState
    ELSE IF "corrupt" \in DOMAIN f[1] THEN DefaultState ELSE f[1]

\* ----------------------------------------------------- persisted documents
\* The state document a previous process left after start and n-1 turns:
\* the SYSTEM init message followed by alternating persona messages.
PriorMessage(i) ==
    IF i = 1 THEN InitMessage
    ELSE Message(i - 1, EntityName(i % 2 = 0), "text", FALSE)

PriorDoc(n, running) ==
    [messages |-> [i \in 1..n |-> PriorMessage(i)],
     isRunning |-> running,
     currentTurn |-> IF (n - 1) % 2 = 0 THEN "A" ELSE "B",
     totalExchanges |-> n - 1]

PriorLens == {MAX_MESSAGES - 1}

InitialFiles ==
    {<<>>} \cup {<<PriorDoc(n, r)>> : n \in PriorLens, r \in BOOLEAN}

\* A file that does not parse, no file, and the file left after start and
\* one turn.
DamagedFiles ==
    {<<>>, <<Corrupt>>} \cup {<<PriorDoc(2, r)>> : r \in BOOLEAN}

\* Archive file names: getArchiveFilename's date and hour.
ArchiveNames == (0..MaxDate) \X (0..MaxHour)

\* getArchiveFilename(): the name for the current date and hour.
getArchiveFilename == <<date, hour>>

\* A closure that does not exist (yet, or any more).
NoLoop == [pc |-> "none", isAlphaTurn |-> FALSE, kind |-> "text"]
DeadLoop == [pc |-> "dead", isAlphaTurn |-> FALSE, kind |-> "text"]

\* The latest step: its operation, the HTTP status it answered (0 when it is
\* no request), the turn cycle it ran in (0 when none), `success` of its body.
Step(op, status, loop, success) ==
    [op |-> op, status |-> status, loop |-> loop, success |-> success,
     code |-> Undefined, body |-> Undefined, threw |-> FALSE]

\* The latest step when it is a request: req.body.adminCode and the answer.
Request(op, code, status, success) ==
    [Step(op, status, 0, success) EXCEPT !.code = code]

\* Payloads handed to broadcast().
MessageEvent(m) == [type |-> "message", id |-> m.id]
StatusEvent(running) == [type |-> "status", isRunning |-> running]
ResetEvent == [type |-> "reset"]
ViewersEvent(n) == [type |-> "viewers", count |-> n]

\* The connections /api/stream can accept, by order of arrival; each is a
\* response object of its own.
Connections == 1..MaxViewers

\* clients.forEach(client => client.write(message)) for each event.
Deliver(to, events) ==
    [c \in Connections |->
        IF c \in to THEN received[c] \o events ELSE received[c]]

\* A hub whose forEach misses the client added last.
MutBroadcastMissesNewest(to, events) ==
    /\ emitted' = events
    /\ received' = Deliver({c \in to : \E d \in to : d > c}, events)

\* The broadcast() calls of one step, in order, while `to` is subscribed.
broadcastTo(to, events) ==
    /\ emitted' = events
    /\ received' = Deliver(to, events)

\* broadcast() in a step that leaves the subscriptions alone.
broadcast(events) == broadcastTo(clients, events)

\* ------------------------------------------------------------ the gallery
\* gallery-index.json: whether it exists, whether JSON.parse accepts it, and
\* the agent of each ImageArtifact it lists.
GalleryFile(images) == [exists |-> TRUE, parses |-> TRUE, images |-> images]
NoGalleryFile == [exists |-> FALSE, parses |-> FALSE, images |-> <<>>]
CorruptGalleryFile == [exists |-> TRUE, parses |-> FALSE, images |-> <<>>]

\* agentName of generateScheduledImage.
AgentName(agent) == IF agent = "ALPHA" THEN "CLAUDE_ALPHA" ELSE "CLAUDE_OMEGA"

\* this.nextAgent === 'ALPHA' ? 'OMEGA' : 'ALPHA'
OtherAgent(agent) == IF agent = "ALPHA" THEN "OMEGA" ELSE "ALPHA"

\* loadGallery: galleryImages after the constructor.
loadGallery(f) == IF f.exists /\ f.parses THEN f.images ELSE <<>>

\* loadGallery: nextAgent after the constructor, ALPHA unless the last
\* record of the index is CLAUDE_ALPHA's.
NextAgentLoaded(f) ==
    IF Len(loadGallery(f)) > 0
       /\ loadGallery(f)[Len(loadGallery(f))] = "CLAUDE_ALPHA"
    THEN "OMEGA" ELSE "ALPHA"

\* An index of n records credited in turn, ALPHA first.
AlternatingIndex(n) ==
    [i \in 1..n |-> IF i % 2 = 1 THEN "CLAUDE_ALPHA" ELSE "CLAUDE_OMEGA"]

\* The index files a new generator may find: none, an unreadable one, one
\* left by a generator that recorded up to MaxImages - 1 images.
GalleryFiles ==
    {NoGalleryFile, CorruptGalleryFile}
    \cup {GalleryFile(AlternatingIndex(n)) : n \in 1..(MaxImages - 1)}

\* How one run of generateScheduledImage goes: no database adapter; a
\* throw before the image exists (getMemories, the thought, the download);
\* no image URL; the artifact recorded and every later call succeeding; the
\* artifact recorded and createMemory or the broadcast throwing.
GenerationOutcomes ==
    {"no-db", "throws", "no-url", "recorded", "recorded-throws"}

\* ------------------------------------------------------------------- Init
\* The process after module load (state = loadState()), before app.listen's
\* callback, in a run bounded by `starts` turn cycles and `turns` turns.
\* e.files are the state files the process may find, e.autoStarts the values
\* of AUTO_START, e.disks whether writes may fail, e.memories whether the
\* agent memory is malformed, e.tokens whether GITHUB_TOKEN is set, e.lost
\* whether the archive directory is unwritable, e.strays the sets of files
\* with local names that the GitHub archives directory may hold,
\* e.galleries the gallery index files the image generator may find.
\* BackroomsViewer before init(): nothing shown, no stream.  `shown` is the
\* conversation element's messages by id, `conn` the connection of its
\* EventSource (0: none) and `handled` the events of it already handled.
NewViewer ==
    [loaded |-> FALSE, shown |-> <<>>, displayedIds |-> {},
     exchangeCount |-> 0, conn |-> 0, handled |-> 0]

BootWith(starts, turns, e) ==
    /\ adminSecret \in Secrets
    /\ autoStart \in e.autoStarts
    /\ agentsReady \in BOOLEAN
    /\ diskFaulty \in e.disks
    /\ memoryFaulty \in e.memories
    /\ githubToken \in e.tokens
    /\ archiveDirLost \in e.lost
    /\ remoteStray \in e.strays
    /\ budget = [starts |-> starts, turns |-> turns]
    /\ phase = "booting"
    /\ file \in e.files
    /\ state = loadState(file)
    /\ conversationInterval = NoTimer
    /\ loops = [l \in 1..starts |-> NoLoop]
    /\ nextLoop = 0
    /\ nextId = MAX_MESSAGES
    /\ nextImageIsAlpha = TRUE
    /\ imageDue = FALSE
    /\ hour = 0
    /\ date = 0
    /\ lastArchiveDate = 0
    /\ archiveDue = FALSE
    /\ localArchives = [f \in ArchiveNames |-> <<>>]
    /\ remoteArchives = [f \in ArchiveNames |-> <<>>]
    /\ archiveRuns = 0
    /\ archivesCache = <<>>
    /\ archivesCacheFresh = FALSE
    /\ galleryFile \in e.galleries
    /\ galleryImages = loadGallery(galleryFile)
    /\ nextAgent = NextAgentLoaded(galleryFile)
    /\ isGenerating = FALSE
    /\ generationAwaited = FALSE
    /\ clients = {}
    /\ nextClient = 0
    /\ received = [c \in Connections |-> <<>>]
    /\ viewer = NewViewer
    /\ emitted = <<>>
    /\ last = Step("load", 0, 0, TRUE)
    /\ appended = state.messages

\* A process on a reliable disk that finds no file or a well-formed one.
ReliableEnv ==
    [files |-> InitialFiles, autoStarts |-> BOOLEAN, disks |-> {FALSE},
     memories |-> {FALSE}, tokens |-> {TRUE}, lost |-> {FALSE},
     strays |-> {{}}, galleries |-> {NoGalleryFile}]

Boot(starts, turns) == BootWith(starts, turns, ReliableEnv)

\* Bounds of the viewer specification.
ViewMaxStarts == 1
ViewMaxTurns == 2

Init == Boot(MaxStarts, MaxTurns)

\* ------------------------------------------------------- start / stop
\* A start that pushes the init message whatever the history.
MutStartedStateAlwaysSeeds(st) ==
    [st EXCEPT !.isRunning = TRUE,
               !.messages = Append(st.messages, InitMessage)]

\* The state startConversation leaves (lines 841-888): isRunning, and the
\* init message when the history is empty.
StartedState(st) ==
    [st EXCEPT !.isRunning = TRUE,
               !.messages = IF Len(st.messages) = 0
                            THEN Append(st.messages, InitMessage)
                            ELSE st.messages]

\* startConversation() called when the state is st.  The 3-second timer
\* that begins the cycle is not stored in conversationInterval.
startConversation(st, ok) ==
    IF st.isRunning
    THEN /\ state' = st
         /\ broadcast(<<>>)
         /\ UNCHANGED <<file, loops, nextLoop, appended>>
    ELSE LET seeded == Len(st.messages) = 0
             st2 == StartedState(st)
         IN  /\ nextLoop < budget.starts
             /\ state' = st2
             /\ file' = saveState(file, st2, ok)
             /\ broadcast((IF seeded THEN <<MessageEvent(InitMessage)>>
                           ELSE <<>>) \o <<StatusEvent(TRUE)>>)
             /\ nextLoop' = nextLoop + 1
             /\ loops' = [loops EXCEPT
                            ![nextLoop + 1] = [NoLoop EXCEPT !.pc = "init"]]
             /\ appended' = IF seeded THEN Append(appended, InitMessage)
                            ELSE appended

\* clearTimeout(conversationInterval): a pending timer is cancelled and its
\* cycle ends; a handle whose timer has already fired is left alone.
ClearTimeout(ls, handle) ==
    IF handle # NoTimer /\ ls[handle].pc = "wait"
    THEN [ls EXCEPT ![handle] = DeadLoop]
    ELSE ls

\* stopConversation without `state.isRunning = false`.
MutStoppedStateKeepsFlag(st) == st

\* state.isRunning = false
StoppedState(st) == [st EXCEPT !.isRunning = FALSE]

\* The loops after stopConversation's `if (conversationInterval) {...}`.
LoopsAfterStop(ls, handle) == ClearTimeout(ls, handle)

\* stopConversation(): the state, the file and the loops it leaves.
stopConversation(ok) ==
    /\ state' = StoppedState(state)
    /\ loops' = LoopsAfterStop(loops, conversationInterval)
    /\ conversationInterval' = NoTimer
    /\ file' = saveState(file, StoppedState(state), ok)
    /\ broadcast(<<StatusEvent(FALSE)>>)

\* ------------------------------------------------------------ the routes
\* return res.status(401).json({ error: 'Unauthorized' })
Unauthorized(op, code) ==
    /\ last' = Request(op, code, 401, FALSE)
    /\ broadcast(<<>>)
    /\ UNCHANGED <<env, hub, gallery, phase, state, file, conversationInterval, loops,
                   nextLoop, nextId, nextImageIsAlpha, imageDue, hour, calendar,
                   localArchives, remoteArchives, archiveRuns, cache, appended>>

\* POST /api/start
ApiStart(code) ==
    /\ phase = "listening"
    /\ IF ~isValidAdmin(code) THEN Unauthorized("start", code)
       ELSE /\ \E ok \in WriteOutcomes : startConversation(state, ok)
            /\ last' = Request("start", code, 200, TRUE)
            /\ UNCHANGED <<env, hub, gallery, phase, conversationInterval, nextId,
                           nextImageIsAlpha, imageDue, hour, calendar, localArchives,
                           remoteArchives, archiveRuns, cache>>

\* POST /api/stop
ApiStop(code) ==
    /\ phase = "listening"
    /\ IF ~isValidAdmin(code) THEN Unauthorized("stop", code)
       ELSE /\ \E ok \in WriteOutcomes : stopConversation(ok)
            /\ last' = Request("stop", code, 200, TRUE)
            /\ UNCHANGED <<env, hub, gallery, phase, nextLoop, nextId, nextImageIsAlpha,
                           imageDue, hour, calendar, localArchives, remoteArchives,
                           archiveRuns, cache, appended>>

\* A reset that clears the messages and keeps the counters.
MutResetKeepsCounters(st) ==
    [st EXCEPT !.messages = <<>>, !.isRunning = FALSE]

\* state = { messages: [], isRunning: false, currentTurn: 'A', ... }
ResetState(st) == DefaultState

\* POST /api/reset: stopConversation(), replace the state, save, broadcast.
ApiReset(code) ==
    /\ phase = "listening"
    /\ IF ~isValidAdmin(code) THEN Unauthorized("reset", code)
       ELSE /\ \E ok1, ok2 \in WriteOutcomes :
                 /\ state' = ResetState(StoppedState(state))
                 /\ file' = saveState(saveState(file, StoppedState(state), ok1),
                                      ResetState(StoppedState(state)), ok2)
            /\ loops' = LoopsAfterStop(loops, conversationInterval)
            /\ conversationInterval' = NoTimer
            /\ broadcast(<<StatusEvent(FALSE), ResetEvent>>)
            /\ appended' = <<>>
            /\ last' = Request("reset", code, 200, TRUE)
            /\ UNCHANGED <<env, hub, gallery, phase, nextLoop, nextId, nextImageIsAlpha,
                           imageDue, hour, calendar, localArchives, remoteArchives,
                           archiveRuns, cache>>

\* app.listen's callback: the auto-start of startServer.
StartServer ==
    /\ phase = "booting"
    /\ phase' = "listening"
    /\ IF Len(state.messages) > 0 \/ autoStart
       THEN \E ok \in WriteOutcomes :
                startConversation(StoppedState(state), ok)
       ELSE /\ broadcast(<<>>)
            /\ UNCHANGED <<state, file, loops, nextLoop, appended>>
    /\ last' = Step("boot", 0, 0, TRUE)
    /\ UNCHANGED <<env, hub, gallery, conversationInterval, nextId, nextImageIsAlpha,
                   imageDue, hour, calendar, localArchives, remoteArchives, archiveRuns, cache>>

\* ---------------------------------------------------------- the turn cycle
\* Turns begun and not yet committed.
InFlight == {l \in LoopIds : loops[l].pc \in {"gen", "img", "sched"}}

\* Turns this process has begun.
TurnsBegun == (nextId - MAX_MESSAGES) + Cardinality(InFlight)

\* A tail of runWithRandomDelay that never sets the next timer.
MutRescheduleEndsCycle(l, ls, running) ==
    /\ loops' = [ls EXCEPT ![l] = DeadLoop]
    /\ UNCHANGED conversationInterval

\* The tail of runWithRandomDelay: if (state.isRunning) conversationInterval =
\* setTimeout(runWithRandomDelay, delay); else the cycle ends.
Reschedule(l, ls, running) ==
    /\ loops' = [ls EXCEPT ![l] = IF running
                                  THEN [NoLoop EXCEPT !.pc = "wait"]
                                  ELSE DeadLoop]
    /\ conversationInterval' = IF running THEN l ELSE conversationInterval

\* A runWithRandomDelay without its try/catch: a throw skips the tail.
MutReschedulesUnlessThrew(running, threw) == running /\ ~threw

\* Whether runWithRandomDelay sets the next timer after a turn: the turn's
\* exceptions are caught (lines 830, 896), so only state.isRunning decides.
ReschedulesAfter(running, threw) == running

\* runConversationTurn without `if (!state.isRunning) return`.
MutTurnBeginsWhenStopped(st) == agentsReady

\* runConversationTurn goes on to its external call: neither
\* `if (!state.isRunning) return` nor the missing-agents return is taken.
TurnBegins(st) == st.isRunning /\ agentsReady

\* A timer of cycle l expires (the 3 s timer of startConversation or the
\* 25-35 s timer of runWithRandomDelay): runConversationTurn up to its first
\* await.  It returns at once when stopped or when the agents are missing.
TimerFires(l) ==
    /\ phase = "listening"
    /\ loops[l].pc \in {"init", "wait"}
    /\ IF TurnBegins(state)
       THEN /\ TurnsBegun < budget.turns
            /\ loops' = [loops EXCEPT ![l] =
                           [pc |-> "gen",
                            isAlphaTurn |-> (state.currentTurn = "A"),
                            kind |-> "text"]]
            /\ UNCHANGED conversationInterval
       ELSE Reschedule(l, loops, state.isRunning)
    /\ broadcast(<<>>)
    /\ last' = Step("timer", 0, l, TRUE)
    /\ UNCHANGED <<env, hub, gallery, phase, state, file, nextLoop, nextId,
                   nextImageIsAlpha, imageDue, hour, calendar, localArchives,
                   remoteArchives, archiveRuns, cache, appended>>

\* A commit that puts the new message first: unshift instead of push.
MutAppendedStateUnshifts(st, message, isAlphaTurn) ==
    [st EXCEPT !.messages = Truncate(<<message>> \o st.messages),
               !.totalExchanges = st.totalExchanges + 1,
               !.currentTurn = IF isAlphaTurn THEN "B" ELSE "A"]

\* The state after lines 799-805: push, totalExchanges++, currentTurn from
\* the isAlphaTurn captured when the turn began, truncate.
AppendedState(st, message, isAlphaTurn) ==
    [st EXCEPT !.messages = Truncate(Append(st.messages, message)),
               !.totalExchanges = st.totalExchanges + 1,
               !.currentTurn = IF isAlphaTurn THEN "B" ELSE "A"]

\* The catch block of runConversationTurn (lines 830-835): saveState().
CaughtSave(f, st, threw, ok) == IF threw THEN saveState(f, st, ok) ELSE f

\* Lines 791-835 and the tail of runWithRandomDelay, run by cycle l with the
\* response kind and image it has obtained; `threw` when the bookkeeping
\* after the broadcast throws into the catch block.
Commit(l, kind, image, threw) ==
    LET message == Message(nextId, EntityName(loops[l].isAlphaTurn), kind, image)
        st2 == AppendedState(state, message, loops[l].isAlphaTurn)
    IN  /\ state' = st2
        /\ \E ok, ok2 \in WriteOutcomes :
              file' = CaughtSave(saveState(file, st2, ok), st2, threw, ok2)
        /\ broadcast(<<MessageEvent(message)>>)
        /\ appended' = Append(appended, message)
        /\ nextId' = nextId + 1
        /\ Reschedule(l, loops, ReschedulesAfter(state.isRunning, threw))

\* `!imageUrl && now >= nextImageTime && isAlphaTurn === nextImageIsAlpha`
ScheduledImageWanted(l, image) ==
    ~image /\ imageDue /\ loops[l].isAlphaTurn = nextImageIsAlpha

\* After the marker image is settled: await the scheduled image or commit.
AfterMarker(l, kind, image, threw) ==
    IF ScheduledImageWanted(l, image)
    THEN /\ loops' = [loops EXCEPT ![l].pc = "sched", ![l].kind = kind]
         /\ broadcast(<<>>)
         /\ UNCHANGED <<state, file, appended, nextId, conversationInterval>>
    ELSE Commit(l, kind, image, threw)

\* The step of cycle l, with whether its turn ended in the catch block.
TurnStep(op, l, success, threw) ==
    [Step(op, 0, l, success) EXCEPT !.threw = threw /\ nextId' # nextId]

\* A generator that hands on whatever text the runtime gave, or none.
MutGenerateHandsOnText(o) ==
    IF ~o.service THEN NoServiceText
    ELSE IF o.result \in {"text", "marker"} THEN o.result
    ELSE IF o.result = "throws" THEN Fallback
    ELSE ""

\* generateElizaResponse: the text of the result when it has one, else one
\* of the two canned texts; the outcome of the room setup is ignored.
generateElizaResponse(o) ==
    IF ~o.service THEN NoServiceText
    ELSE IF o.result \in {"text", "marker"} THEN o.result
    ELSE Fallback

\* generateElizaResponse returns to cycle l.
ResponseArrives(l, kind) ==
    /\ loops[l].pc = "gen"
    /\ IF kind = "marker"
       THEN /\ loops' = [loops EXCEPT ![l].pc = "img", ![l].kind = kind]
            /\ broadcast(<<>>)
            /\ UNCHANGED <<state, file, appended, nextId, conversationInterval>>
            /\ last' = Step("response", 0, l, TRUE)
       ELSE \E threw \in ThrowOutcomes :
                /\ AfterMarker(l, kind, FALSE, threw)
                /\ last' = TurnStep("response", l, TRUE, threw)
    /\ UNCHANGED <<env, hub, gallery, phase, nextLoop, nextImageIsAlpha, imageDue, hour, calendar,
                   localArchives, remoteArchives, archiveRuns, cache>>

\* generateImage for the marker returns a URL (image) or null.
MarkerImageArrives(l, image) ==
    /\ loops[l].pc = "img"
    /\ \E threw \in ThrowOutcomes :
         /\ AfterMarker(l, loops[l].kind, image, threw)
         /\ last' = TurnStep("markerImage", l, image, threw)
    /\ UNCHANGED <<env, hub, gallery, phase, nextLoop, nextImageIsAlpha, imageDue, hour, calendar,
                   localArchives, remoteArchives, archiveRuns, cache>>

\* A scheduled image whose failure passes the turn to the other persona.
MutNextImagePersonaAlwaysFlips(isAlpha, image) == ~isAlpha

\* if (generatedUrl) nextImageIsAlpha = !nextImageIsAlpha
NextImagePersona(isAlpha, image) == IF image THEN ~isAlpha ELSE isAlpha

\* generateImage for the scheduled image returns a URL (image) or null.
ScheduledImageArrives(l, image) ==
    /\ loops[l].pc = "sched"
    /\ nextImageIsAlpha' = NextImagePersona(nextImageIsAlpha, image)
    /\ imageDue' = IF image THEN FALSE ELSE imageDue
    /\ \E threw \in ThrowOutcomes :
         /\ Commit(l, loops[l].kind, image, threw)
         /\ last' = TurnStep("scheduledImage", l, image, threw)
    /\ UNCHANGED <<env, hub, gallery, phase, nextLoop, hour, calendar, localArchives, remoteArchives,
                   archiveRuns, cache>>

\* The external runtime answers the call of cycle l in the way o.
GenerationReturns(l, o) == ResponseArrives(l, generateElizaResponse(o))

\* ---------------------------------------------------- the gallery's steps
\* The setInterval callback of start(): generateScheduledImage up to its
\* first await; while a generation is in progress it returns at once.
GalleryTick ==
    /\ IF isGenerating
       THEN /\ UNCHANGED <<isGenerating, generationAwaited>>
            /\ last' = Step("galleryTick", 0, 0, FALSE)
       ELSE /\ Len(galleryImages) < MaxImages
            /\ isGenerating' = TRUE
            /\ generationAwaited' = TRUE
            /\ last' = Step("galleryTick", 0, 0, TRUE)
    /\ broadcast(<<>>)
    /\ UNCHANGED <<galleryFile, galleryImages, nextAgent>>
    /\ UNCHANGED <<env, hub, phase, state, file, conversationInterval, loops,
                   nextLoop, nextId, nextImageIsAlpha, imageDue, hour, calendar,
                   localArchives, remoteArchives, archiveRuns, cache, appended>>

\* nextAgent after a run: flipped by the last statement of the try block,
\* which runs only when nothing before it returned or threw.
NextAgentAfter(agent, outcome) ==
    IF outcome = "recorded" THEN OtherAgent(agent) ELSE agent

\* The rest of generateScheduledImage: the artifact is pushed and the index
\* saved (the write may fail) when the image exists; finally isGenerating
\* is cleared.
GalleryFinishes(outcome) ==
    /\ isGenerating /\ generationAwaited
    /\ isGenerating' = FALSE
    /\ generationAwaited' = FALSE
    /\ IF outcome \in {"recorded", "recorded-throws"}
       THEN /\ galleryImages' = Append(galleryImages, AgentName(nextAgent))
            /\ \E ok \in WriteOutcomes :
                  galleryFile' = IF ok THEN GalleryFile(galleryImages')
                                 ELSE galleryFile
       ELSE UNCHANGED <<galleryImages, galleryFile>>
    /\ nextAgent' = NextAgentAfter(nextAgent, outcome)
    /\ broadcast(<<>>)
    /\ last' = [Step("galleryRun", 0, 0,
                     outcome \in {"recorded", "recorded-throws"})
                  EXCEPT !.body = outcome]
    /\ UNCHANGED <<env, hub, phase, state, file, conversationInterval, loops,
                   nextLoop, nextId, nextImageIsAlpha, imageDue, hour, calendar,
                   localArchives, remoteArchives, archiveRuns, cache, appended>>

\* downloadImage's promise settles on the file's 'finish' and on the
\* request's 'error' only: when the response breaks off after its headers
\* (or never ends) neither fires, the await never returns and the finally
\* block is never reached.
GalleryDownloadStalls ==
    /\ isGenerating /\ generationAwaited
    /\ generationAwaited' = FALSE
    /\ broadcast(<<>>)
    /\ last' = Step("galleryStall", 0, 0, FALSE)
    /\ UNCHANGED <<galleryFile, galleryImages, nextAgent, isGenerating>>
    /\ UNCHANGED <<env, hub, phase, state, file, conversationInterval, loops,
                   nextLoop, nextId, nextImageIsAlpha, imageDue, hour, calendar,
                   localArchives, remoteArchives, archiveRuns, cache, appended>>

\* Array.prototype.slice(-count): -0 is 0, so slice(-0) is the whole array.
SliceFromEnd(s, count) == IF count = 0 THEN s ELSE SliceLast(s, count)

\* getRecentImages(count): this.galleryImages.slice(-count).reverse()
getRecentImages(images, count) == Reverse(SliceFromEnd(images, count))

\* A caller asks for the count most recent images.
GalleryRecent(count) ==
    /\ last' = [Step("galleryRecent", 0, 0, TRUE) EXCEPT
                  !.body = [count |-> count,
                            images |-> getRecentImages(galleryImages, count)]]
    /\ broadcast(<<>>)
    /\ UNCHANGED <<env, hub, gallery, phase, state, file, conversationInterval,
                   loops, nextLoop, nextId, nextImageIsAlpha, imageDue, hour,
                   calendar, localArchives, remoteArchives, archiveRuns, cache,
                   appended>>

\* The process is restarted: a new ScheduledImageGenerator is constructed
\* and loads the index.
GalleryReloads ==
    /\ galleryImages' = loadGallery(galleryFile)
    /\ nextAgent' = NextAgentLoaded(galleryFile)
    /\ isGenerating' = FALSE
    /\ generationAwaited' = FALSE
    /\ broadcast(<<>>)
    /\ last' = Step("galleryLoad", 0, 0, TRUE)
    /\ UNCHANGED galleryFile
    /\ UNCHANGED <<env, hub, phase, state, file, conversationInterval, loops,
                   nextLoop, nextId, nextImageIsAlpha, imageDue, hour, calendar,
                   localArchives, remoteArchives, archiveRuns, cache, appended>>

\* ------------------------------------------------------------------ time
\* The wall clock reaches nextImageTime.
ImageTimeReached ==
    /\ ~imageDue
    /\ imageDue' = TRUE
    /\ broadcast(<<>>)
    /\ last' = Step("clock", 0, 0, TRUE)
    /\ UNCHANGED <<env, hub, gallery, phase, state, file, conversationInterval, loops,
                   nextLoop, nextId, nextImageIsAlpha, hour, calendar, localArchives,
                   remoteArchives, archiveRuns, cache, appended>>

\* The wall clock enters the next hour of the day; the hourly interval of
\* startArchiveJob elapses once in every hour.
HourPasses ==
    /\ phase = "listening"
    /\ hour < MaxHour /\ ~archiveDue
    /\ hour' = hour + 1
    /\ archiveDue' = TRUE
    /\ broadcast(<<>>)
    /\ last' = Step("clock", 0, 0, TRUE)
    /\ UNCHANGED <<env, hub, gallery, phase, state, file, conversationInterval, loops,
                   nextLoop, nextId, nextImageIsAlpha, imageDue, date,
                   lastArchiveDate, localArchives, remoteArchives,
                   archiveRuns, cache, appended>>

\* The wall clock enters the first hour of the next day.
DayPasses ==
    /\ phase = "listening"
    /\ hour = MaxHour /\ date < MaxDate /\ ~archiveDue
    /\ hour' = 0
    /\ date' = date + 1
    /\ archiveDue' = TRUE
    /\ broadcast(<<>>)
    /\ last' = Step("clock", 0, 0, TRUE)
    /\ UNCHANGED <<env, hub, gallery, phase, state, file, conversationInterval, loops,
                   nextLoop, nextId, nextImageIsAlpha, imageDue,
                   lastArchiveDate, localArchives, remoteArchives,
                   archiveRuns, cache, appended>>

\* --------------------------------------------------------------- archives
\* archiveData of saveArchiveToGitHub (archivedAt and memory left out).
ArchiveDoc(reason, st) ==
    [reason |-> reason, messageCount |-> Len(st.messages),
     totalExchanges |-> st.totalExchanges, messages |-> st.messages]

\* An archive document that holds only the first message of the list.
MutLocalArchiveDocKeepsFirst(reason, st) ==
    [reason |-> reason, messageCount |-> Len(st.messages),
     totalExchanges |-> st.totalExchanges,
     conversation |-> SubSeq(st.messages, 1, 1)]

\* archiveData of saveLocalArchive: the list is in `conversation`.
LocalArchiveDoc(reason, st) ==
    [reason |-> reason, messageCount |-> Len(st.messages),
     totalExchanges |-> st.totalExchanges, conversation |-> st.messages]

\* A saveLocalArchive without `if (state.messages.length === 0) return null`.
MutLocalArchiveWrittenWhenEmpty(ok) == ok

\* saveLocalArchive(reason): TRUE when a filename is returned.
LocalArchiveWritten(ok) == Len(state.messages) > 0 /\ ok

\* A saveLocalArchive whose file name leaves out the date and the hour.
MutLocalArchivesOneName(archives, reason, ok) ==
    IF LocalArchiveWritten(ok)
    THEN [archives EXCEPT ![<<0, 0>>] = <<LocalArchiveDoc(reason, state)>>]
    ELSE archives

\* The local archive directory after saveLocalArchive(reason): writeFileSync
\* creates or overwrites the file named by the current date and hour.
LocalArchivesAfter(archives, reason, ok) ==
    IF LocalArchiveWritten(ok)
    THEN [archives EXCEPT
            ![getArchiveFilename] = <<LocalArchiveDoc(reason, state)>>]
    ELSE archives

saveLocalArchive(reason, ok) ==
    localArchives' = LocalArchivesAfter(localArchives, reason, ok)

\* Outcomes of a request to the GitHub contents API.
RemoteOutcomes == IF githubToken THEN BOOLEAN ELSE {FALSE}

\* saveArchiveToGitHub(reason): TRUE when the PUT answered ok; `ok` is false
\* when the request failed.  The document is the snapshot taken at the call.
RemoteArchiveWritten(ok) == githubToken /\ Len(state.messages) > 0 /\ ok

\* A successful upload sets archivesCacheTime = 0: the cached listing is
\* kept but is no longer fresh.
saveArchiveToGitHub(reason, ok) ==
    /\ remoteArchives' = IF RemoteArchiveWritten(ok)
                         THEN [remoteArchives EXCEPT
                                 ![getArchiveFilename] =
                                     <<ArchiveDoc(reason, state)>>]
                         ELSE remoteArchives
    /\ archivesCacheFresh' = (archivesCacheFresh /\ ~RemoteArchiveWritten(ok))
    /\ UNCHANGED archivesCache

\* checkDailyArchive's condition.
DailyRollover == date # lastArchiveDate /\ Len(state.messages) > 0

\* The local archive directory after checkDailyArchive().
AfterDailyCheck(archives, ok) ==
    IF DailyRollover THEN LocalArchivesAfter(archives, "daily_rollover", ok)
    ELSE archives

\* The callback of startArchiveJob's setInterval.
ArchiveJob ==
    /\ phase = "listening"
    /\ archiveDue
    /\ archiveDue' = FALSE
    /\ IF Len(state.messages) > 0
       THEN \E dok, lok \in ArchiveWriteOutcomes, rok \in RemoteOutcomes :
              /\ localArchives' =
                    LocalArchivesAfter(AfterDailyCheck(localArchives, dok),
                                       "hourly_snapshot", lok)
              /\ lastArchiveDate' = IF DailyRollover THEN date
                                    ELSE lastArchiveDate
              /\ saveArchiveToGitHub("hourly_snapshot", rok)
       ELSE UNCHANGED <<localArchives, remoteArchives, lastArchiveDate, cache>>
    /\ broadcast(<<>>)
    /\ last' = Step("archiveJob", 0, 0, TRUE)
    /\ UNCHANGED <<env, hub, gallery, phase, state, file, conversationInterval, loops,
                   nextLoop, nextId, nextImageIsAlpha, imageDue, hour, date,
                   archiveRuns, appended>>

\* A manual archive that reports success only when both sinks succeeded.
MutArchiveSuccessNeedsBoth(local, github) == local /\ github

\* `success: !!localFilename || githubSuccess` of POST /api/archive.
ArchiveSuccess(local, github) == local \/ github

\* POST /api/archive
ApiArchive(code) ==
    /\ phase = "listening"
    /\ IF ~isValidAdmin(code) THEN Unauthorized("archive", code)
       ELSE /\ archiveRuns < MaxArchives
            /\ archiveRuns' = archiveRuns + 1
            /\ \E lok \in ArchiveWriteOutcomes, rok \in RemoteOutcomes :
                 /\ saveLocalArchive("manual_trigger", lok)
                 /\ saveArchiveToGitHub("manual_trigger", rok)
                 /\ last' = [Request("archive", code, 200,
                                     ArchiveSuccess(LocalArchiveWritten(lok),
                                                    RemoteArchiveWritten(rok)))
                               EXCEPT !.body =
                                 [localFilename |-> LocalArchiveWritten(lok),
                                  githubSuccess |-> RemoteArchiveWritten(rok)]]
            /\ broadcast(<<>>)
            /\ UNCHANGED <<env, hub, gallery, phase, state, file, conversationInterval,
                           loops, nextLoop, nextId, nextImageIsAlpha, imageDue,
                           hour, calendar, appended>>

\* ------------------------------------------------------- the archive list
\* A file name: its format ("local" for YYYY-MM-DD_HH00.json, "remote" for
\* YYYY-MM-DD_HH-00.json) and the date and hour it encodes.
LocalName(f) == <<"local", f>>
RemoteName(f) == <<"remote", f>>

\* new Date(`${match[1]}T${match[2]}:00:00Z`).getTime(): later hours give
\* greater numbers, and every matched name gives a positive one.
Timestamp(f) == f[1] * (MaxHour + 1) + f[2] + 1

\* The ArchiveInfo listLocalArchives builds: its regular expression matches
\* local names only; size and created are set.
LocalInfo(name) ==
    [filename |-> name,
     timestamp |-> IF name[1] = "local" THEN Timestamp(name[2]) ELSE 0,
     hasSize |-> TRUE]

\* The ArchiveInfo fetchArchivesList builds from a GitHub entry: its regular
\* expression matches remote names only; no size.
RemoteInfo(name) ==
    [filename |-> name,
     timestamp |-> IF name[1] = "remote" THEN Timestamp(name[2]) ELSE 0,
     hasSize |-> FALSE]

\* String order of two file names: by date, by hour, then '-' before '0'.
NameLess(a, b) ==
    \/ a[2][1] < b[2][1]
    \/ a[2][1] = b[2][1] /\ a[2][2] < b[2][2]
    \/ a[2] = b[2] /\ a[1] = "remote" /\ b[1] = "local"

\* files.sort(): the names of S in ascending string order.
RECURSIVE Ascending(_)
Ascending(S) ==
    IF S = {} THEN <<>>
    ELSE LET m == CHOOSE x \in S : \A y \in S \ {x} : NameLess(x, y)
         IN  <<m>> \o Ascending(S \ {m})

\* readdirSync(ARCHIVES_PATH): the files saveLocalArchive has written.
LocalFiles == {LocalName(f) : f \in {g \in ArchiveNames : localArchives[g] # <<>>}}

\* listLocalArchives(): names sorted, reversed, then mapped.
listLocalArchives ==
    LET files == Reverse(Ascending(LocalFiles))
    IN  [i \in 1..Len(files) |-> LocalInfo(files[i])]

\* The contents of archives/ on GitHub, in the order the API lists them:
\* the uploaded archives and the stray files with local names.
GitHubFiles ==
    {RemoteName(f) : f \in {g \in ArchiveNames : remoteArchives[g] # <<>>}}
    \cup {LocalName(f) : f \in remoteStray}

GitHubListing ==
    LET files == Ascending(GitHubFiles)
    IN  [i \in 1..Len(files) |-> RemoteInfo(files[i])]

\* A merge that pushes every cached entry.
RECURSIVE MutMergeKeepsCollisions(_, _)
MutMergeKeepsCollisions(all, rest) ==
    IF rest = <<>> THEN all
    ELSE MutMergeKeepsCollisions(Append(all, Head(rest)), Tail(rest))

\* for (const ga of archivesCache)
\*   if (!allArchives.find(a => a.filename === ga.filename)) push(ga)
RECURSIVE MergeInto(_, _)
MergeInto(all, rest) ==
    IF rest = <<>> THEN all
    ELSE MergeInto(IF \E i \in DOMAIN all : all[i].filename = Head(rest).filename
                   THEN all
                   ELSE Append(all, Head(rest)),
                   Tail(rest))

\* One step of a stable sort by (b.timestamp - a.timestamp): e goes behind
\* the entries of the sorted s that are not older.
InsertNewestFirst(s, e) ==
    LET k == Cardinality({i \in DOMAIN s : s[i].timestamp >= e.timestamp})
    IN  SubSeq(s, 1, k) \o <<e>> \o SubSeq(s, k + 1, Len(s))

\* allArchives.sort((a, b) => b.timestamp - a.timestamp)
RECURSIVE SortNewestFirst(_)
SortNewestFirst(s) ==
    IF s = <<>> THEN <<>>
    ELSE InsertNewestFirst(SortNewestFirst(SubSeq(s, 1, Len(s) - 1)), s[Len(s)])

\* GET /api/archives: fetchArchivesList().  With a fresh non-empty cache the
\* cached listing is merged; else, with a token, GitHub is asked and on an
\* ok answer the cache is replaced and merged; else the local list alone.
ApiArchives ==
    /\ phase = "listening"
    /\ \E ok \in RemoteOutcomes :
         LET useCache == archivesCacheFresh /\ Len(archivesCache) > 0
             refreshed == ~useCache /\ githubToken /\ ok
             cached == IF refreshed THEN GitHubListing ELSE archivesCache
         IN  /\ archivesCache' = cached
             /\ archivesCacheFresh' = (archivesCacheFresh \/ refreshed)
             /\ last' = [Step("list", 200, 0, TRUE) EXCEPT !.body =
                           IF useCache \/ refreshed
                           THEN SortNewestFirst(MergeInto(listLocalArchives,
                                                          cached))
                           ELSE listLocalArchives]
    /\ broadcast(<<>>)
    /\ UNCHANGED <<env, hub, gallery, phase, state, file, conversationInterval, loops,
                   nextLoop, nextId, nextImageIsAlpha, imageDue, hour, calendar,
                   localArchives, remoteArchives, archiveRuns, appended>>

\* ARCHIVES_CACHE_TTL has passed since archivesCacheTime.
CacheExpires ==
    /\ archivesCacheFresh
    /\ archivesCacheFresh' = FALSE
    /\ broadcast(<<>>)
    /\ last' = Step("clock", 0, 0, TRUE)
    /\ UNCHANGED <<env, hub, gallery, phase, state, file, conversationInterval, loops,
                   nextLoop, nextId, nextImageIsAlpha, imageDue, hour, calendar,
                   localArchives, remoteArchives, archiveRuns, archivesCache,
                   appended>>

\* The two file name formats: YYYY-MM-DD_HH00.json of saveLocalArchive and
\* YYYY-MM-DD_HH-00.json of saveArchiveToGitHub.
NameFormats == {"local", "remote"}

\* Outcomes of reading a file in this environment.
ReadOutcomes == IF diskFaulty THEN BOOLEAN ELSE {TRUE}

\* getLocalArchiveContent(filename): <<>> is null, returned when the file
\* does not exist and when reading or parsing it throws (`readable` false).
getLocalArchiveContent(format, f, readable) ==
    IF format = "local" /\ readable THEN localArchives[f] ELSE <<>>

\* A file of the GitHub directory that the server did not upload.
StrayDoc == [reason |-> "stray"]

\* The file GitHub holds under a name: an uploaded archive or a stray file.
GitHubContent(format, f) ==
    IF format = "remote" THEN remoteArchives[f]
    ELSE IF f \in remoteStray THEN <<StrayDoc>> ELSE <<>>

\* A fetch that asks GitHub whatever the local read returned.
MutRemoteQueriedAlways(localContent) == githubToken

\* fetchArchiveContent goes on to its GitHub request: the local content is
\* null and the token is set.
RemoteQueried(localContent) == localContent = <<>> /\ githubToken

\* fetchArchiveContent(filename): the local file, else the remote one when
\* the request is made and answers ok.
fetchArchiveContent(format, f, readable, ok) ==
    LET localContent == getLocalArchiveContent(format, f, readable)
    IN  IF localContent # <<>> THEN localContent
        ELSE IF RemoteQueried(localContent) /\ ok
             THEN GitHubContent(format, f)
             ELSE <<>>

\* What the step of a fetch records besides the answer: the name asked for,
\* whether the local read gave the content, whether GitHub was asked.
FetchTrace(format, f, readable) ==
    LET localContent == getLocalArchiveContent(format, f, readable)
    IN  [filename |-> <<format, f>>,
         local |-> localContent # <<>>,
         remote |-> RemoteQueried(localContent)]

\* GET /api/archives/:filename
ApiFetchArchive(format, f) ==
    /\ phase = "listening"
    /\ \E readable \in ReadOutcomes, ok \in RemoteOutcomes :
         LET content == fetchArchiveContent(format, f, readable, ok)
         IN  last' = FetchTrace(format, f, readable) @@
                     IF content # <<>>
                     THEN [Step("fetch", 200, 0, TRUE) EXCEPT !.body = content[1]]
                     ELSE Step("fetch", 404, 0, FALSE)
    /\ broadcast(<<>>)
    /\ UNCHANGED <<env, hub, gallery, phase, state, file, conversationInterval, loops,
                   nextLoop, nextId, nextImageIsAlpha, imageDue, hour, calendar,
                   localArchives, remoteArchives, archiveRuns, cache, appended>>

\* A shutdown handler that exits without saveState().
MutShutdownSkipsFlush(f, st, ok) == f

\* The state file after the handler's saveState().
FlushedFile(f, st, ok) == saveState(f, st, ok)

\* gracefulShutdown(signal) and the uncaughtException handler: an emergency
\* archive, a state save, and the process exits with its timers.  The body
\* of the step records which of the two writes went through.
GracefulShutdown ==
    /\ phase = "listening"
    /\ phase' = "exited"
    /\ \E lok \in ArchiveWriteOutcomes, ok \in WriteOutcomes :
         /\ saveLocalArchive("emergency", lok)
         /\ file' = FlushedFile(file, state, ok)
         /\ last' = [Step("shutdown", 0, 0, TRUE) EXCEPT !.body =
                       [archived |-> LocalArchiveWritten(lok), flushed |-> ok]]
    /\ loops' = [l \in LoopIds |->
                   IF loops[l].pc = "none" THEN NoLoop ELSE DeadLoop]
    /\ conversationInterval' = NoTimer
    /\ broadcast(<<>>)
    /\ UNCHANGED <<env, hub, gallery, state, nextLoop, nextId, nextImageIsAlpha, imageDue,
                   hour, calendar, remoteArchives, archiveRuns, cache, appended>>

\* ------------------------------------------------------------------- Next
\* The admin codes the server accepts.
ValidCodes == {code \in Codes : isValidAdmin(code)}

\* The scheduler and its control routes, called with the valid admin code;
\* responses carry no image marker and the image clock stands still.
Next ==
    \/ StartServer
    \/ \E code \in ValidCodes : ApiStart(code)
    \/ \E code \in ValidCodes : ApiStop(code)
    \/ \E code \in ValidCodes : ApiReset(code)
    \/ \E l \in LoopIds : TimerFires(l)
    \/ \E l \in LoopIds : ResponseArrives(l, "text")

Spec == Init /\ [][Next]_vars

\* The scheduler with the four admin routes, called with any code.
NextAdmin ==
    \/ StartServer
    \/ \E code \in Codes : ApiStart(code)
    \/ \E code \in Codes : ApiStop(code)
    \/ \E code \in Codes : ApiReset(code)
    \/ \E code \in Codes : ApiArchive(code)
    \/ \E l \in LoopIds : TimerFires(l)
    \/ \E l \in LoopIds : ResponseArrives(l, "text")

InitAdmin == Boot(AdminMaxStarts, AdminMaxTurns)

AdminSpec == InitAdmin /\ [][NextAdmin]_vars

\* The scheduler with the image side-channel.
NextImages ==
    \/ StartServer
    \/ \E code \in ValidCodes : ApiStart(code)
    \/ \E code \in ValidCodes : ApiStop(code)
    \/ \E code \in ValidCodes : ApiReset(code)
    \/ \E l \in LoopIds : TimerFires(l)
    \/ \E l \in LoopIds, kind \in ResponseKinds : ResponseArrives(l, kind)
    \/ \E l \in LoopIds, image \in BOOLEAN : MarkerImageArrives(l, image)
    \/ \E l \in LoopIds, image \in BOOLEAN : ScheduledImageArrives(l, image)
    \/ ImageTimeReached

InitImages == Boot(ImageMaxStarts, ImageMaxTurns)

ImageSpec == InitImages /\ [][NextImages]_vars

\* The scheduler where writes of the state file and of archives may fail,
\* the bookkeeping of a turn may throw, the generator returns its fallback
\* text or a text with an image marker, marker image calls may fail, and the
\* hourly archive job runs.
FaultKinds == {"marker", Fallback}

NextFaults ==
    \/ StartServer
    \/ \E code \in ValidCodes : ApiStart(code)
    \/ \E code \in ValidCodes : ApiStop(code)
    \/ \E code \in ValidCodes : ApiReset(code)
    \/ \E l \in LoopIds : TimerFires(l)
    \/ \E l \in LoopIds, kind \in FaultKinds : ResponseArrives(l, kind)
    \/ \E l \in LoopIds, image \in BOOLEAN : MarkerImageArrives(l, image)
    \/ HourPasses
    \/ ArchiveJob

\* A process whose writes may fail at any time, whose archive directory is
\* lost, and that has neither AUTO_START nor a GitHub token; it finds any
\* kind of state file.
FaultyEnv ==
    [files |-> DamagedFiles, autoStarts |-> {FALSE}, disks |-> {TRUE},
     memories |-> {TRUE}, tokens |-> {FALSE}, lost |-> {TRUE},
     strays |-> {{}}, galleries |-> {NoGalleryFile}]

InitFaults == BootWith(FaultMaxStarts, FaultMaxTurns, FaultyEnv)

FaultSpec == InitFaults /\ [][NextFaults]_vars

\* The turn cycle with start and stop, where the generator returns a text
\* or its fallback, the bookkeeping of a turn may throw, timers expire and
\* every external call returns.
LiveKinds == {"text", Fallback}

NextLive ==
    \/ StartServer
    \/ \E code \in ValidCodes : ApiStart(code)
    \/ \E code \in ValidCodes : ApiStop(code)
    \/ \E l \in LoopIds : TimerFires(l)
    \/ \E l \in LoopIds, kind \in LiveKinds : ResponseArrives(l, kind)

\* A process with a reliable disk and a malformed agent memory, that finds
\* no state file or that of a running conversation.
LiveEnv ==
    [FaultyEnv EXCEPT !.files = {<<>>, <<PriorDoc(2, TRUE)>>},
                      !.disks = {FALSE}]

InitLive == BootWith(LiveMaxStarts, LiveMaxTurns, LiveEnv)

\* Node runs every expired timer's callback, and the external calls return.
LiveFairness ==
    /\ WF_vars(StartServer)
    /\ \A l \in 1..LiveMaxStarts :
         /\ WF_vars(TimerFires(l))
         /\ WF_vars(\E kind \in LiveKinds : ResponseArrives(l, kind))

LiveSpec == InitLive /\ [][NextLive]_vars /\ LiveFairness

\* The conversation with its archive triggers (hourly job with daily
\* rollover, manual, emergency) and the archive read route, on a reliable
\* disk, started by AUTO_START on an empty data directory; the archives of
\* the current day are read under their local names.
NextArchive ==
    \/ StartServer
    \/ \E l \in LoopIds : TimerFires(l)
    \/ \E l \in LoopIds : ResponseArrives(l, "text")
    \/ HourPasses
    \/ DayPasses
    \/ ArchiveJob
    \/ \E code \in ValidCodes : ApiArchive(code)
    \/ \E h \in 0..MaxHour : ApiFetchArchive("local", <<date, h>>)
    \/ GracefulShutdown

ArchiveEnv ==
    [ReliableEnv EXCEPT !.files = {<<>>}, !.autoStarts = {TRUE},
                        !.tokens = {FALSE}]

InitArchive == BootWith(ArchiveMaxStarts, ArchiveMaxTurns, ArchiveEnv)

ArchiveSpec == InitArchive /\ [][NextArchive]_vars

\* The archive triggers where each sink may fail on its own: the disk may
\* reject a write and the GitHub API may refuse a request.
NextSinks ==
    \/ StartServer
    \/ \E l \in LoopIds : TimerFires(l)
    \/ \E l \in LoopIds : ResponseArrives(l, "text")
    \/ HourPasses
    \/ ArchiveJob
    \/ \E code \in ValidCodes : ApiArchive(code)
    \/ GracefulShutdown

SinkEnv ==
    [ReliableEnv EXCEPT !.files = {<<>>}, !.autoStarts = {TRUE},
                        !.disks = {TRUE}]

InitSinks == BootWith(SinkMaxStarts, SinkMaxTurns, SinkEnv)

SinkSpec == InitSinks /\ [][NextSinks]_vars

\* The archive list: archives are written by the hourly job and the manual
\* route in the hours of one day, uploads may fail, the GitHub directory may
\* hold a stray file with the local name of one of these hours, and the list
\* is read at any time.
NextList ==
    \/ StartServer
    \/ HourPasses
    \/ ArchiveJob
    \/ \E code \in ValidCodes : ApiArchive(code)
    \/ ApiArchives
    \/ CacheExpires

Strays == {{}} \cup {{<<0, h>>} : h \in 0..MaxHour}

ListEnv ==
    [ReliableEnv EXCEPT !.files = {<<>>}, !.autoStarts = {TRUE},
                        !.tokens = BOOLEAN, !.strays = Strays]

InitList == BootWith(ArchiveMaxStarts, ArchiveMaxTurns, ListEnv)

ListSpec == InitList /\ [][NextList]_vars

\* The archive read route on a disk and a GitHub API that may fail, with or
\* without a token, over the archives of the hourly job; GitHub may hold a
\* stray file with the local name of the last hour.
NextFetch ==
    \/ StartServer
    \/ HourPasses
    \/ ArchiveJob
    \/ \E format \in NameFormats, f \in ArchiveNames : ApiFetchArchive(format, f)

FetchEnv ==
    [ListEnv EXCEPT !.disks = {TRUE}, !.strays = {{}, {<<0, MaxHour>>}}]

InitFetch == BootWith(ArchiveMaxStarts, ArchiveMaxTurns, FetchEnv)

FetchSpec == InitFetch /\ [][NextFetch]_vars

\* The turn cycle over every behaviour of the external runtime, with start
\* and stop, marker images that may fail and bookkeeping that may throw.
NextGen ==
    \/ StartServer
    \/ \E code \in ValidCodes : ApiStart(code)
    \/ \E code \in ValidCodes : ApiStop(code)
    \/ \E l \in LoopIds : TimerFires(l)
    \/ \E l \in LoopIds, o \in RuntimeOutcomes : GenerationReturns(l, o)
    \/ \E l \in LoopIds, image \in BOOLEAN : MarkerImageArrives(l, image)

InitGen == BootWith(GenMaxStarts, GenMaxTurns, LiveEnv)

GenSpec == InitGen /\ [][NextGen]_vars

\* The turn cycle with its two image calls, each of which may fail, and the
\* image clock; no admin request arrives.
NextCooldown ==
    \/ StartServer
    \/ \E l \in LoopIds : TimerFires(l)
    \/ \E l \in LoopIds, kind \in ResponseKinds : ResponseArrives(l, kind)
    \/ \E l \in LoopIds, image \in BOOLEAN : MarkerImageArrives(l, image)
    \/ \E l \in LoopIds, image \in BOOLEAN : ScheduledImageArrives(l, image)
    \/ ImageTimeReached

InitCooldown == Boot(CooldownMaxStarts, CooldownMaxTurns)

CooldownSpec == InitCooldown /\ [][NextCooldown]_vars

\* The scheduled image generator on its own: its interval, the outcomes of
\* a generation, restarts of the process, on a disk that may reject writes.
NextGallery ==
    \/ GalleryTick
    \/ \E outcome \in GenerationOutcomes : GalleryFinishes(outcome)
    \/ GalleryDownloadStalls
    \/ \E count \in 0..(MaxImages + 1) : GalleryRecent(count)
    \/ GalleryReloads

GalleryEnv ==
    [ReliableEnv EXCEPT !.files = {<<>>}, !.autoStarts = {FALSE},
                        !.disks = BOOLEAN, !.galleries = GalleryFiles]

InitGallery == BootWith(AdminMaxStarts, AdminMaxTurns, GalleryEnv)

GallerySpec == InitGallery /\ [][NextGallery]_vars

\* ================================================================= claims
\* Turn cycles that still hold a pending timer or an in-flight turn.
LiveCycles ==
    {l \in LoopIds : loops[l].pc \in {"init", "gen", "img", "sched", "wait"}}

\* The step appended one message to the history.
AppendedNow == Len(appended') = Len(appended) + 1
PersonaAppended == AppendedNow /\ appended'[Len(appended')].entity # "SYSTEM"
SystemAppended == AppendedNow /\ appended'[Len(appended')].entity = "SYSTEM"

\* The step is an authorized call of the route op.
Authorized(op) == last'.op = op /\ last'.status = 200

\* C1: after an authorized start the in-memory isRunning is true, after an
\* authorized stop or reset it is false, and the state document on disk
\* holds the same isRunning value (writes of the state file succeed).
C1_IsRunningMatchesTarget ==
    last.status = 200 /\ last.op \in {"start", "stop", "reset"} =>
        /\ state.isRunning = (last.op = "start")
        /\ file # <<>>
        /\ file[1].isRunning = state.isRunning

\* A second start, after a stop, has returned.
C1_Witness ==
    /\ last.op = "start" /\ last.status = 200
    /\ nextLoop >= 2
    /\ state.isRunning /\ file[1].isRunning

\* C2: every step that appends a persona message adds exactly 1 to
\* totalExchanges and changes currentTurn to the other value; the step that
\* appends the SYSTEM init message changes neither.
C2_TurnCountsAndFlipsOnce ==
    [][/\ PersonaAppended =>
            /\ state'.totalExchanges = state.totalExchanges + 1
            /\ state'.currentTurn # state.currentTurn
       /\ SystemAppended =>
            /\ state'.totalExchanges = state.totalExchanges
            /\ state'.currentTurn = state.currentTurn]_vars

\* C3: two persona messages appended one after the other since the last
\* reset have different entities.
C3_PersonasAlternate ==
    \A i \in 1..(Len(appended) - 1) :
        appended[i].entity # "SYSTEM" /\ appended[i + 1].entity # "SYSTEM"
            => appended[i].entity # appended[i + 1].entity

\* C4: at most one turn is in flight and at most one turn cycle is live.
C4_SingleTurnCycle ==
    /\ Cardinality(InFlight) <= 1
    /\ Cardinality(LiveCycles) <= 1

\* C5: an authorized start changes nothing when a turn cycle is live, and
\* begins a cycle when none is live, whatever the isRunning flag says.
C5_StartKeyedOnLiveCycle ==
    [][Authorized("start") =>
          IF LiveCycles # {}
          THEN /\ UNCHANGED <<state, file, loops, nextLoop,
                              conversationInterval>>
               /\ emitted' = <<>>
          ELSE /\ nextLoop' = nextLoop + 1
               /\ state'.isRunning]_vars

\* C6: a response that arrives while the conversation is stopped (after a
\* stop or a reset) leaves messages, totalExchanges and currentTurn as they
\* were.
C6_LateResponseDiscarded ==
    [][last'.op = "response" /\ ~state.isRunning =>
          /\ state' = state
          /\ appended' = appended]_vars

\* C7: an authorized stop leaves isRunning false, clears the stored timer
\* handle and cancels its pending timer; a turn begins (a cycle issues the
\* external generation call) only in a step taken while isRunning is true;
\* and isRunning becomes true again only by a start.
C7_NoTurnBeginsAfterStop ==
    [][/\ Authorized("stop") =>
            /\ ~state'.isRunning
            /\ conversationInterval' = NoTimer
            /\ conversationInterval # NoTimer =>
                   loops'[conversationInterval].pc # "wait"
       /\ \A l \in LoopIds :
            loops[l].pc # "gen" /\ loops'[l].pc = "gen" => state.isRunning
       /\ ~state.isRunning /\ state'.isRunning =>
            last'.op \in {"start", "boot"}]_vars

\* The 3-second timer of the only cycle has fired after a stop: the cycle
\* ended and no turn began.
C7_Witness ==
    /\ last.op = "timer" /\ ~state.isRunning
    /\ nextLoop = 1 /\ loops[1].pc = "dead"
    /\ nextId = MAX_MESSAGES /\ InFlight = {}
    /\ file # <<>> /\ ~file[1].isRunning

\* C8: an authorized reset leaves the fresh empty state in memory and on
\* disk, broadcasts exactly one reset event, and treats the timer and the
\* turn cycles as stop does.
C8_ResetYieldsFreshState ==
    [][Authorized("reset") =>
          /\ state' = DefaultState
          /\ file' = <<DefaultState>>
          /\ Cardinality({i \in DOMAIN emitted' : emitted'[i].type = "reset"}) = 1
          /\ conversationInterval' = NoTimer
          /\ loops' = ClearTimeout(loops, conversationInterval)
          /\ appended' = <<>>]_vars

\* A reset has returned while a turn was in flight.
C8_Witness ==
    /\ last.op = "reset" /\ last.status = 200
    /\ InFlight # {}
    /\ state = DefaultState /\ file = <<DefaultState>>

\* C9: the message list never holds more than 100 messages and is always
\* the most recent (up to 100) messages appended since the last reset, in
\* append order.
C9_BoundedToMostRecent ==
    /\ Len(state.messages) <= MAX_MESSAGES
    /\ state.messages = SliceLast(appended, MAX_MESSAGES)

\* More than 100 messages were appended and the SYSTEM message was dropped.
C9_Witness ==
    /\ Len(appended) > MAX_MESSAGES
    /\ Len(state.messages) = MAX_MESSAGES
    /\ state.messages[1].entity # "SYSTEM"
    /\ state.messages[MAX_MESSAGES].id = nextId - 1

\* C10: a call of start, stop, reset or manual archive is answered 200
\* exactly when a non-empty secret is configured and the code equals it; an
\* absent or empty code is answered 401 whatever the secret; and a call
\* answered 401 changes no state, timer, turn cycle or archive and
\* broadcasts nothing.
C10_FalsyCodeUnauthorized ==
    [][last'.op \in {"start", "stop", "reset", "archive"} =>
          /\ last'.status \in {200, 401}
          /\ last'.status = 200 <=>
                 (adminSecret \notin {Undefined, ""} /\ last'.code = adminSecret)
          /\ last'.code \in {Undefined, ""} => last'.status = 401
          /\ last'.status = 401 =>
                 /\ UNCHANGED <<state, file, conversationInterval, loops,
                                nextLoop, nextId, nextImageIsAlpha, imageDue,
                                hour, calendar, localArchives, remoteArchives,
                                archiveRuns, cache, appended>>
                 /\ emitted' = <<>>]_vars

\* The empty code was refused by a server whose secret is the empty string,
\* while a turn cycle was live.
C10_Witness ==
    /\ last.op = "archive" /\ last.status = 401
    /\ last.code = "" /\ adminSecret = ""
    /\ LiveCycles # {}

\* C11: an authorized start while isRunning is false leaves isRunning true;
\* with an empty history the messages become exactly the one SYSTEM init
\* message; with a non-empty history the messages, totalExchanges and
\* currentTurn are left as they were.
C11_StartSeedsOnlyEmptyHistory ==
    [][Authorized("start") /\ ~state.isRunning =>
          /\ state'.isRunning
          /\ IF Len(state.messages) = 0
             THEN /\ Len(state'.messages) = 1
                  /\ state'.messages[1].entity = "SYSTEM"
                  /\ appended' = Append(appended, state'.messages[1])
             ELSE /\ state'.messages = state.messages
                  /\ state'.totalExchanges = state.totalExchanges
                  /\ state'.currentTurn = state.currentTurn
                  /\ appended' = appended]_vars

\* A start after a reset has seeded the empty history again.
C11_Witness ==
    /\ last.op = "start" /\ last.status = 200
    /\ nextLoop >= 2
    /\ state.isRunning
    /\ state.messages = <<InitMessage>>

\* C12: the image call for an [IMAGE: ...] marker is issued only when the
\* image cooldown has expired (otherwise the message is appended at once,
\* without image and with the marker text as content), and when that call
\* succeeds the appended message carries the image and the marker text.
C12_MarkerImageHonoursCooldown ==
    [][/\ \A l \in LoopIds :
            loops[l].pc = "gen" /\ loops'[l].pc = "img" => imageDue
       /\ last'.op = "markerImage" /\ last'.success =>
            /\ PersonaAppended
            /\ appended'[Len(appended')].image
            /\ appended'[Len(appended')].content = "marker"]_vars

\* C15: the auto-start of server startup follows the loaded state: it
\* resumes (isRunning true, a turn cycle begun) when the loaded isRunning is
\* true; it leaves the conversation stopped when the loaded isRunning is
\* false and messages exist; with no messages it starts exactly when
\* AUTO_START is 'true'.
C15_StartupFollowsPersistedFlag ==
    [][last'.op = "boot" =>
          LET resumes == IF state.isRunning THEN TRUE
                         ELSE IF Len(state.messages) > 0 THEN FALSE
                         ELSE autoStart
          IN  /\ state'.isRunning = resumes
              /\ (nextLoop' = nextLoop + 1) = resumes]_vars

\* C14: isRunning goes from true to false only in an authorized stop or
\* reset (or when the process exits), whatever the generator, the image
\* call, the state-file writes and the archive runs do; and while the server
\* listens, isRunning = true always comes with a live turn cycle.
C14_OnlyAdminStops ==
    [][/\ state.isRunning /\ ~state'.isRunning =>
            last'.op \in {"stop", "reset"} /\ last'.status = 200
       /\ phase' = "listening" /\ state'.isRunning => LiveCycles' # {}]_vars

\* A turn whose generator fell back, whose state write failed and whose
\* bookkeeping threw has ended; the conversation runs on with its next timer
\* pending, after an archive run that failed.
C14_Witness ==
    /\ last.op = "response" /\ last.threw
    /\ state.messages[Len(state.messages)].content = Fallback
    /\ file # <<state>>
    /\ state.isRunning
    /\ loops[last.loop].pc = "wait"
    /\ hour > 0 /\ ~archiveDue /\ localArchives[<<0, hour>>] = <<>>

\* C16: every step that changes the ConversationState, and every start,
\* stop, reset and completed turn, ends with the state file holding exactly
\* the in-memory ConversationState (the writes of the state file succeed).
C16_StateFileMirrorsState ==
    [][(\/ state' # state
        \/ /\ last'.op \in {"start", "stop", "reset", "response"}
           /\ last'.status \in {0, 200})
       => file' = <<state'>>]_vars

\* A turn has completed after a stop and a second start, and the file holds
\* the state with the new message.
C16_Witness ==
    /\ last.op = "response"
    /\ nextLoop >= 2
    /\ Len(appended) > 1
    /\ state.messages[Len(state.messages)].id = nextId - 1
    /\ file = <<state>>

\* C17: the state after load is the persisted document when the file exists
\* and parses, and the fresh default (not running, no messages, turn A, no
\* exchanges) when it is absent or does not parse; and a handler whose save
\* failed still answers and broadcasts as usual, leaves the file as it was
\* and the in-memory state as the handler set it.
C17_LoadAndSaveNeverRaise ==
    [][/\ last.op = "load" =>
            state = IF file = <<>> \/ file = <<Corrupt>>
                    THEN [messages |-> <<>>, isRunning |-> FALSE,
                          currentTurn |-> "A", totalExchanges |-> 0]
                    ELSE file[1]
       /\ Authorized("stop") /\ file' # <<state'>> =>
            /\ file' = file
            /\ state' = [state EXCEPT !.isRunning = FALSE]
            /\ emitted' = <<StatusEvent(FALSE)>>
       /\ Authorized("start") /\ ~state.isRunning /\ file' # <<state'>> =>
            /\ file' = file
            /\ state'.isRunning
            /\ nextLoop' = nextLoop + 1
            /\ emitted'[Len(emitted')] = StatusEvent(TRUE)
       /\ PersonaAppended /\ file' # <<state'>> =>
            /\ file' = file
            /\ state'.messages[Len(state'.messages)] = appended'[Len(appended')]
            /\ emitted' = <<MessageEvent(appended'[Len(appended')])>>
            /\ loops'[last'.loop].pc = IF state.isRunning THEN "wait" ELSE "dead"
      ]_vars

\* The process found an unparseable file, started from the default state,
\* and a stop whose save failed has answered: the file is still unparseable.
C17_Witness ==
    /\ file = <<Corrupt>>
    /\ last.op = "stop" /\ last.status = 200
    /\ state = [DefaultState EXCEPT !.messages = <<InitMessage>>]

\* C13: every turn in flight leads to its cycle waiting on the next timer,
\* unless the conversation is stopped meanwhile, whether the turn threw or
\* produced fallback content; and a cycle waiting on its timer (with agents
\* initialised) leads to its next turn, unless the conversation is stopped
\* or the run's turn budget is used up.
C13_TurnCycleSurvivesFailures ==
    \A l \in 1..LiveMaxStarts :
        /\ loops[l].pc \in {"gen", "img", "sched"}
              ~> (loops[l].pc = "wait" \/ ~state.isRunning)
        /\ (loops[l].pc = "wait" /\ agentsReady)
              ~> \/ loops[l].pc = "gen"
                 \/ ~state.isRunning
                 \/ TurnsBegun >= budget.turns

\* After a turn that produced the fallback text, the same cycle has begun
\* its next turn.
C13_Witness ==
    /\ last.op = "timer" /\ loops[last.loop].pc = "gen"
    /\ Len(appended) > 1
    /\ appended[Len(appended)].content = Fallback
    /\ appended[Len(appended)].id = nextId - 1
    /\ nextId > MAX_MESSAGES
    /\ nextLoop = 1


\* C18: a successful GET /api/archives/:filename answers with a document
\* that carries its list of messages under the key `messages`, as long as
\* the list that was stored.
C18_FetchNormalizesToMessages ==
    [][(last'.op = "fetch" /\ last'.status = 200)
          => /\ "messages" \in DOMAIN last'.body
             /\ Len(last'.body.messages) = last'.body.messageCount]_vars

\* C19: an archive job that runs on a new calendar date with a non-empty
\* conversation on a working disk leaves an archive tagged daily_rollover
\* next to the hourly_snapshot archive of the same run, and records the date.
C19_DailyRolloverBesideHourly ==
    [][(last'.op = "archiveJob" /\ archiveDue /\ DailyRollover
        /\ ~archiveDirLost /\ ~diskFaulty)
          => /\ lastArchiveDate' = date
             /\ \E f \in ArchiveNames :
                   /\ localArchives'[f] # <<>>
                   /\ localArchives'[f][1].reason = "hourly_snapshot"
             /\ \E f \in ArchiveNames :
                   /\ localArchives'[f] # <<>>
                   /\ localArchives'[f][1].reason = "daily_rollover"]_vars

IsSnapshot(doc, list) ==
    /\ doc.messageCount = Len(state.messages)
    /\ doc.totalExchanges = state.totalExchanges
    /\ list = state.messages

HoldsSnapshot(archives, reason, field) ==
    /\ archives[getArchiveFilename] # <<>>
    /\ archives[getArchiveFilename][1].reason = reason
    /\ archives[getArchiveFilename][1][field] = state.messages

\* C21: in the manual and in the hourly archive each sink keeps its own
\* outcome: what the manual archive reports for a sink is what happened to
\* that sink (the snapshot is stored, or the sink is left as it was),
\* whatever happened to the other one, and `success` is true exactly when
\* one of the two succeeded; the hourly job changes a sink only by storing
\* its snapshot there.
C21_SinksFailIndependently ==
    [][/\ Authorized("archive") =>
            /\ last'.success
                  = (last'.body.localFilename \/ last'.body.githubSuccess)
            /\ IF last'.body.localFilename
               THEN HoldsSnapshot(localArchives', "manual_trigger", "conversation")
               ELSE localArchives' = localArchives
            /\ IF last'.body.githubSuccess
               THEN HoldsSnapshot(remoteArchives', "manual_trigger", "messages")
               ELSE remoteArchives' = remoteArchives
       /\ last'.op = "archiveJob" =>
            /\ localArchives' # localArchives
                  => HoldsSnapshot(localArchives', "hourly_snapshot", "conversation")
            /\ remoteArchives' # remoteArchives
                  => HoldsSnapshot(remoteArchives', "hourly_snapshot", "messages")
      ]_vars

\* The manual archive of the first hour failed locally and reached GitHub;
\* the hourly job of the next hour wrote locally and failed on GitHub.
C21_Witness ==
    /\ last.op = "archiveJob"
    /\ localArchives[<<0, 0>>] = <<>>
    /\ remoteArchives[<<0, 0>>] # <<>>
    /\ remoteArchives[<<0, 0>>][1].reason = "manual_trigger"
    /\ localArchives[<<0, 1>>] # <<>>
    /\ localArchives[<<0, 1>>][1].reason = "hourly_snapshot"
    /\ remoteArchives[<<0, 1>>] = <<>>

\* C22: when the process has exited through a shutdown handler, the state
\* file holds the state the process ended with if the flush went through,
\* and, if the conversation was not empty, the archive of the current hour
\* is the emergency snapshot of its messages if that write went through;
\* the archive is attempted whenever there is a message, and on a disk that
\* accepts writes both go through.
C22_ArchiveAndFlushBeforeExit ==
    phase = "exited" =>
        /\ last.op = "shutdown"
        /\ last.body.flushed => file = <<state>>
        /\ last.body.archived
              => HoldsSnapshot(localArchives, "emergency", "conversation")
        /\ last.body.archived => Len(state.messages) > 0
        /\ ~diskFaulty => last.body.flushed
        /\ (~diskFaulty /\ ~archiveDirLost /\ Len(state.messages) > 0)
              => last.body.archived

\* The process has exited after a persona turn, on a disk that may reject
\* writes, with the emergency archive written and the state flushed.
C22_Witness ==
    /\ phase = "exited"
    /\ last.body.flushed
    /\ last.body.archived
    /\ Len(appended) > 1
    /\ state.totalExchanges > 0

\* C23: a step of the hourly job (with its daily rollover), of the manual
\* archive or of the emergency archive leaves the conversation state and the
\* history as they were; the job and the manual archive also leave the turn
\* cycles, the stored timer handle and the state file as they were; every
\* archive document the step stores holds the messages of that moment.
C23_ArchiveRunLeavesConversation ==
    [][last'.op \in {"archiveJob", "archive", "shutdown"} =>
          /\ state' = state
          /\ appended' = appended
          /\ nextId' = nextId
          /\ last'.op # "shutdown" =>
                /\ loops' = loops
                /\ conversationInterval' = conversationInterval
                /\ nextLoop' = nextLoop
                /\ file' = file
          /\ \A f \in ArchiveNames :
                /\ localArchives'[f] # localArchives[f]
                      => localArchives'[f][1].conversation = state.messages
                /\ remoteArchives'[f] # remoteArchives[f]
                      => remoteArchives'[f][1].messages = state.messages
      ]_vars

\* The hourly job has run while a persona turn was waiting for its
\* response: the local archive holds the conversation as it is, and the
\* upload failed.
C23_Witness ==
    /\ last.op = "archiveJob"
    /\ state.isRunning
    /\ \E l \in LoopIds : loops[l].pc = "gen"
    /\ Len(state.messages) > 0
    /\ localArchives[getArchiveFilename] # <<>>
    /\ localArchives[getArchiveFilename][1].conversation = state.messages
    /\ remoteArchives[getArchiveFilename] = <<>>

\* C24: the list GET /api/archives answers with holds every local archive,
\* holds an entry of the remote listing only when it is in the cache and no
\* local entry has its file name, holds no file name twice, and is ordered
\* by timestamp, newest first.
C24_ListMergesLocalFirst ==
    last.op = "list" =>
        LET list == last.body
            entries == DOMAIN list
        IN  /\ \A f \in ArchiveNames :
                  localArchives[f] # <<>>
                     => \E i \in entries : list[i] = LocalInfo(LocalName(f))
            /\ \A i \in entries :
                  ~list[i].hasSize =>
                     /\ \E k \in DOMAIN archivesCache : archivesCache[k] = list[i]
                     /\ \A j \in entries :
                           list[j].hasSize
                              => list[j].filename # list[i].filename
            /\ \A i, j \in entries :
                  i # j => list[i].filename # list[j].filename
            /\ \A i, j \in entries :
                  i < j => list[i].timestamp >= list[j].timestamp

\* The list has been answered from the cache while a local archive and a
\* stray remote file have the same name: the list holds the local entry,
\* an uploaded archive of another hour, and not the stray one.
C24_Witness ==
    /\ last.op = "list"
    /\ \E f \in remoteStray :
          /\ localArchives[f] # <<>>
          /\ \E k \in DOMAIN archivesCache :
                archivesCache[k].filename = LocalName(f)
    /\ \E i \in DOMAIN last.body : ~last.body[i].hasSize
    /\ Len(last.body) > 2

C26_GeneratorAlwaysYieldsText ==
    [][\A l \in LoopIds :
          (loops[l].pc \in {"gen", "img", "sched"}
           /\ loops'[l].pc \notin {"gen", "img", "sched"})
             => /\ PersonaAppended
                /\ appended'[Len(appended')].content
                      \in {"text", "marker", Fallback, NoServiceText}
                /\ appended'[Len(appended')].content # ""
                /\ state'.messages[Len(state'.messages)]
                      = appended'[Len(appended')]
      ]_vars

\* A turn of a stopped conversation has ended in the catch block after
\* appending the canned text.
C26_Witness ==
    /\ last.op = "response"
    /\ last.threw
    /\ ~state.isRunning
    /\ Len(appended) > 1
    /\ appended[Len(appended)].content = Fallback
    /\ state.messages[Len(state.messages)] = appended[Len(appended)]

\* The image call that returns to cycle l in this step gave no URL.
ImageCallFailed(l) ==
    /\ last'.op \in {"markerImage", "scheduledImage"}
    /\ last'.loop = l
    /\ ~last'.success

\* The turn of cycle l had its marker image call fail, in this step or
\* before it went on to the scheduled image.
MarkerCallFailed(l) ==
    \/ loops[l].pc = "img" /\ ImageCallFailed(l)
    \/ loops[l].pc = "sched" /\ loops[l].kind = "marker"

\* The turn of cycle l appends its message in this step.
TurnCommits(l) == PersonaAppended /\ last'.loop = l /\ loops[l].pc # "none"

\* C27 as stated: a turn whose marker image call or scheduled image call
\* failed appends its message with the generated content and no image, and
\* leaves the cooldown and the next-image persona as they were.
C27_FailedImageLeavesNoImage ==
    [][\A l \in LoopIds :
          (TurnCommits(l) /\ (MarkerCallFailed(l) \/ ImageCallFailed(l)))
             => /\ appended'[Len(appended')].content = loops[l].kind
                /\ ~appended'[Len(appended')].image
                /\ nextImageIsAlpha' = nextImageIsAlpha
                /\ imageDue' = imageDue
      ]_vars

\* C27: an image call that gives no URL changes neither the cooldown nor
\* the next-image persona and is not repeated; after a failed marker call
\* the turn appends its message without image unless the scheduled image is
\* due for its persona, and then makes that one call; after a failed
\* scheduled call the turn appends its message without image.  Every message
\* carries the generated content, and an image exactly when the last image
\* call of its turn gave a URL; only a scheduled call that gave a URL
\* advances the cooldown and the persona.
C27_FailedImageCallIsNotRetried ==
    [][\A l \in LoopIds :
          /\ ImageCallFailed(l) =>
                /\ nextImageIsAlpha' = nextImageIsAlpha
                /\ imageDue' = imageDue
                /\ loops'[l].pc # "img"
                /\ loops[l].pc = "sched" => TurnCommits(l)
                /\ loops[l].pc = "img" =>
                      IF ScheduledImageWanted(l, FALSE)
                      THEN loops'[l].pc = "sched" /\ ~AppendedNow
                      ELSE TurnCommits(l)
          /\ TurnCommits(l) =>
                /\ appended'[Len(appended')].content = loops[l].kind
                /\ appended'[Len(appended')].image
                      = (last'.op \in {"markerImage", "scheduledImage"}
                         /\ last'.success)
          /\ (nextImageIsAlpha' # nextImageIsAlpha
              \/ (imageDue /\ ~imageDue'))
                => last'.op = "scheduledImage" /\ last'.success
      ]_vars

\* The marker image call of a turn failed, the scheduled image was due, its
\* call failed too, and the message was appended with its marker and no
\* image while the cooldown stays expired.
C27_Witness ==
    /\ last.op = "scheduledImage"
    /\ ~last.success
    /\ imageDue
    /\ appended[Len(appended)].content = "marker"
    /\ ~appended[Len(appended)].image
    /\ appended[Len(appended)].id = nextId - 1

\* C28: in the gallery, in memory and in the index file, consecutive records
\* are credited to different personas, and the persona of the next image is
\* the one that did not make the last recorded image.
C28_GalleryCreditsAlternate ==
    /\ \A i \in 1..(Len(galleryImages) - 1) :
          galleryImages[i] # galleryImages[i + 1]
    /\ \A i \in 1..(Len(galleryFile.images) - 1) :
          galleryFile.images[i] # galleryFile.images[i + 1]
    /\ (~isGenerating /\ Len(galleryImages) > 0)
          => AgentName(nextAgent) # galleryImages[Len(galleryImages)]


\* ------------------------------------------------- the list is append-only
\* new keeps a tail of old, message for message and in the same order, and
\* adds at most one message behind it.
KeepsTailAddsAtEnd(old, new) ==
    \E k \in 0..Len(old) :
        /\ Len(new) \in {Len(old) - k, Len(old) - k + 1}
        /\ \A i \in 1..(Len(old) - k) : new[i] = old[k + i]

\* C29: across every step other than a reset, each message still in the
\* list has the id, entity, content and image it was appended with, the
\* order of the messages is unchanged, and messages leave only from the
\* front.
C29_MessagesImmutableInOrder ==
    [][~Authorized("reset") =>
          /\ KeepsTailAddsAtEnd(state.messages, state'.messages)
          /\ Len(state'.messages) <= Len(appended')
          /\ \A i \in 1..Len(state'.messages) :
                 state'.messages[i] =
                     appended'[Len(appended') - Len(state'.messages) + i]]_vars

\* The 101st message has been appended: the SYSTEM message left from the
\* front and the messages behind it moved up unchanged.
C29_Witness ==
    /\ Len(appended) = MAX_MESSAGES + 1
    /\ appended[1] = InitMessage
    /\ \A i \in 1..MAX_MESSAGES : state.messages[i] = appended[i + 1]
    /\ \A i \in 1..(MAX_MESSAGES - 2) : state.messages[i] = PriorMessage(i + 1)


\* -------------------------------------------------- the snapshot for viewers
\* GET /api/state: the JSON answer (viewers and startedAt left out).
StateSnapshot(st) ==
    [messages |-> st.messages, isRunning |-> st.isRunning,
     totalExchanges |-> st.totalExchanges]

\* GET /api/state, the first request of a viewer's page.
ApiState ==
    /\ phase = "listening"
    /\ last' = [Step("state", 200, 0, TRUE) EXCEPT
                  !.body = StateSnapshot(state)]
    /\ broadcast(<<>>)
    /\ UNCHANGED <<env, hub, gallery, phase, state, file, conversationInterval, loops,
                   nextLoop, nextId, nextImageIsAlpha, imageDue, hour, calendar,
                   localArchives, remoteArchives, archiveRuns, cache, appended>>

\* The scheduler with reset, and viewers asking for the snapshot.
NextView ==
    \/ StartServer
    \/ \E code \in ValidCodes : ApiReset(code)
    \/ \E l \in LoopIds : TimerFires(l)
    \/ \E l \in LoopIds : ResponseArrives(l, "text")
    \/ ApiState

InitView == Boot(ViewMaxStarts, ViewMaxTurns)

ViewSpec == InitView /\ [][NextView]_vars

\* C30: the state snapshot served to a viewer contains every message
\* appended since the last reset.
C30_SnapshotHoldsEveryMessage ==
    last.op = "state" =>
        \A i \in 1..Len(appended) :
            \E j \in 1..Len(last.body.messages) :
                last.body.messages[j] = appended[i]


\* ------------------------------------------------------- the broadcast hub
\* GET /api/stream: clients.add(res), then the viewers count is broadcast.
Subscribe ==
    /\ phase = "listening"
    /\ nextClient < MaxViewers
    /\ nextClient' = nextClient + 1
    /\ clients' = clients \cup {nextClient + 1}
    /\ broadcastTo(clients', <<ViewersEvent(Cardinality(clients'))>>)
    /\ last' = [Step("connect", 200, 0, TRUE) EXCEPT !.body = nextClient + 1]
    /\ UNCHANGED <<env, gallery, phase, state, file, conversationInterval, loops,
                   nextLoop, nextId, nextImageIsAlpha, imageDue, hour, calendar,
                   localArchives, remoteArchives, archiveRuns, cache, appended>>

\* A client other than the modelled browser opens the stream.
StreamConnect == Subscribe /\ UNCHANGED viewer

\* A close handler that clears the turn timer instead of the heartbeat.
MutCloseClearsConversationTimer(ls, handle) == ClearTimeout(ls, handle)

\* clearInterval(heartbeat): the timer cleared is the connection's own.
TimersAfterClose(ls, handle) == ls

\* req.on('close'): clearInterval(heartbeat), clients.delete(res), then the
\* viewers count is broadcast.
Unsubscribe(c) ==
    /\ c \in clients
    /\ loops' = TimersAfterClose(loops, conversationInterval)
    /\ clients' = clients \ {c}
    /\ broadcastTo(clients', <<ViewersEvent(Cardinality(clients'))>>)
    /\ last' = [Step("close", 0, 0, TRUE) EXCEPT !.body = c]
    /\ UNCHANGED <<env, gallery, nextClient, phase, state, file,
                   conversationInterval, nextLoop, nextId,
                   nextImageIsAlpha, imageDue, hour, calendar, localArchives,
                   remoteArchives, archiveRuns, cache, appended>>

\* The stream of a client other than the modelled browser closes.
StreamClose(c) == c # viewer.conn /\ Unsubscribe(c) /\ UNCHANGED viewer

\* The auto-started scheduler with viewers coming and going.
NextHub ==
    \/ StartServer
    \/ \E l \in LoopIds : TimerFires(l)
    \/ \E l \in LoopIds : ResponseArrives(l, "text")
    \/ StreamConnect
    \/ \E c \in Connections : StreamClose(c)

HubEnv == [ReliableEnv EXCEPT !.files = {<<>>}]

InitHub == BootWith(HubMaxStarts, HubMaxTurns, HubEnv)

HubSpec == InitHub /\ [][NextHub]_vars

\* C31: a viewer connecting or disconnecting, the last one included, never
\* changes ConversationState or its file and never starts, stops or
\* cancels a turn cycle; and with no viewer connected a pending turn still
\* begins and a generated response is still appended.
C31_ConversationIndependentOfViewers ==
    /\ [][last'.op \in {"connect", "close"} =>
             UNCHANGED <<state, file, conversationInterval, loops, nextLoop,
                         nextId, appended>>]_vars
    /\ [](clients = {} =>
             \A l \in LoopIds :
                 /\ loops[l].pc = "gen" => ENABLED ResponseArrives(l, "text")
                 /\ (loops[l].pc \in {"init", "wait"}
                         /\ TurnsBegun < budget.turns)
                        => ENABLED TimerFires(l))

\* The last viewer has left while the timer was pending, and a message was
\* appended afterwards with nobody subscribed.
C31_Witness ==
    /\ clients = {} /\ nextClient > 0
    /\ last.op = "response"
    /\ Len(appended) > 1
    /\ emitted = <<MessageEvent(appended[Len(appended)])>>
    /\ \A c \in Connections :
           \A i \in 1..Len(received[c]) : received[c][i].type # "message"

\* The ids of the message events in what a connection was written, in order.
MessageIdsOf(events) ==
    LET ms == SelectSeq(events, LAMBDA e : e.type = "message")
    IN  [i \in 1..Len(ms) |-> ms[i].id]

\* The ids of the appended messages, in append order.
AppendedIds == [i \in 1..Len(appended) |-> appended[i].id]

\* C32: each broadcast event is written exactly to the viewers subscribed
\* when it is broadcast; an appended message gives one message event to
\* each of them, in append order; every connect and disconnect is followed
\* by a viewers event carrying the number of subscribed viewers; a
\* disconnected viewer is written nothing further.
C32_HubDeliversToSubscribers ==
    /\ [][/\ \A c \in Connections :
                received'[c] = IF c \in clients'
                               THEN received[c] \o emitted'
                               ELSE received[c]
          /\ AppendedNow =>
                MessageIdsOf(emitted') = <<appended'[Len(appended')].id>>
          /\ last'.op \in {"connect", "close"} =>
                emitted' = <<ViewersEvent(Cardinality(clients'))>>]_vars
    /\ [](\A c \in Connections :
             \E k \in 0..Len(appended) :
                 /\ k + Len(MessageIdsOf(received[c])) <= Len(appended)
                 /\ MessageIdsOf(received[c]) =
                        SubSeq(AppendedIds, k + 1,
                               k + Len(MessageIdsOf(received[c])))
                 /\ c \in clients =>
                        k + Len(MessageIdsOf(received[c])) = Len(appended))

\* Two viewers: the first saw a message and the second viewer arrive, then
\* left; the second was written a later message the first never got.
C32_Witness ==
    /\ clients = {2}
    /\ Len(MessageIdsOf(received[1])) > 0
    /\ \E i \in 1..Len(received[1]) : received[1][i] = ViewersEvent(2)
    /\ \E i \in 1..Len(received[2]) : received[2][i] = ViewersEvent(1)
    /\ Len(MessageIdsOf(received[2])) > 0
    /\ MessageIdsOf(received[2])[1] > MessageIdsOf(received[1])[1]

\* ------------------------------------------- scheduled images alternate
\* The step attaches a scheduled image to the message of cycle last'.loop.
ScheduledImageAttached == last'.op = "scheduledImage" /\ last'.success

\* C33: a scheduled image is attached only on a turn of the persona named
\* by nextImageIsAlpha and only when the time has reached nextImageTime, so
\* successive scheduled images alternate by persona and lie at least
\* IMAGE_INTERVAL apart, whatever the interleaving of turns.
C33_ScheduledImagesAlternate ==
    [][ScheduledImageAttached =>
          /\ loops[last'.loop].isAlphaTurn = nextImageIsAlpha
          /\ imageDue]_vars

\* ------------------------------------------- no archive of an empty list
\* The archive triggers around a conversation that may be empty: before the
\* first start and after a reset.
NextEmpty ==
    \/ StartServer
    \/ \E code \in ValidCodes : ApiReset(code)
    \/ HourPasses
    \/ DayPasses
    \/ ArchiveJob
    \/ \E code \in ValidCodes : ApiArchive(code)
    \/ GracefulShutdown

EmptyEnv == [ReliableEnv EXCEPT !.files = {<<>>}]

InitEmpty == BootWith(ArchiveMaxStarts, ArchiveMaxTurns, EmptyEnv)

EmptySpec == InitEmpty /\ [][NextEmpty]_vars

\* C34: with an empty message list the hourly job (daily rollover
\* included), the manual archive and the emergency handler write no local
\* file and upload nothing, and the manual archive answers success = false.
C34_NoArchiveOfEmptyConversation ==
    [][(/\ Len(state.messages) = 0
        /\ \/ last'.op \in {"archiveJob", "shutdown"}
           \/ Authorized("archive"))
       => /\ UNCHANGED <<localArchives, remoteArchives, lastArchiveDate>>
          /\ last'.op = "archive" =>
                /\ ~last'.success
                /\ ~last'.body.localFilename
                /\ ~last'.body.githubSuccess]_vars

\* A manual archive was asked for after a reset had emptied the list, on a
\* later day than the last archive: it answered success = false and the
\* archive directory and the repository hold nothing.
C34_Witness ==
    /\ last.op = "archive" /\ last.status = 200 /\ ~last.success
    /\ Len(state.messages) = 0 /\ nextLoop > 0
    /\ date # lastArchiveDate
    /\ \A f \in ArchiveNames : localArchives[f] = <<>> /\ remoteArchives[f] = <<>>

\* --------------------------------------------- one generation at a time
\* setInterval keeps firing, and a promise that can settle does.
GalleryFairness ==
    /\ WF_vars(GalleryTick)
    /\ WF_vars(\E outcome \in GenerationOutcomes : GalleryFinishes(outcome))

GalleryLiveSpec == InitGallery /\ [][NextGallery]_vars /\ GalleryFairness

\* A tick that arrives while a generation is in progress changes nothing.
SkippedTickHasNoEffect ==
    [][(isGenerating /\ last'.op = "galleryTick") =>
          UNCHANGED <<gallery, state, file, clients, received>>]_vars

\* An attempt that records, returns early or throws clears the flag.
EndedAttemptClearsFlag ==
    [][last'.op = "galleryRun" => isGenerating /\ ~isGenerating']_vars

\* C35: a tick that arrives while a generation is in progress is skipped
\* without side effects, every attempt that ends clears the in-progress
\* flag, and a generation in progress is always followed by a state where
\* none is, so that a later tick can generate again.
C35_OneGenerationAtATime ==
    /\ SkippedTickHasNoEffect
    /\ EndedAttemptClearsFlag
    /\ [](isGenerating => <>(~isGenerating))

\* ------------------------------------------------ the gallery is a log
\* C36: outside a restart, records are only added at the end of the index
\* and none is removed, reordered or changed; getRecentImages(n) returns
\* the min(n, size) most recently added records, newest first, for n >= 0.
C36_GalleryAppendOnlyRecentFirst ==
    /\ [][last'.op # "galleryLoad" =>
             \/ galleryImages' = galleryImages
             \/ /\ Len(galleryImages') = Len(galleryImages) + 1
                /\ SubSeq(galleryImages', 1, Len(galleryImages)) = galleryImages
         ]_vars
    /\ [](last.op = "galleryRecent" =>
             LET n == last.body.count
                 size == Len(galleryImages)
                 m == IF n < size THEN n ELSE size
             IN  /\ Len(last.body.images) = m
                 /\ \A i \in 1..m :
                        last.body.images[i] = galleryImages[size - i + 1])

\* -------------------------------------------------- the SYSTEM message
\* C37: the message list holds at most one SYSTEM message, and only as its
\* first element; a SYSTEM message is appended only to an empty list, never
\* after a persona message.
C37_SystemMessageOnlyFirst ==
    /\ [](\A i \in 1..Len(state.messages) :
             state.messages[i].entity = "SYSTEM" => i = 1)
    /\ [][(AppendedNow /\ appended'[Len(appended')].entity = "SYSTEM") =>
             /\ Len(state.messages) = 0
             /\ state'.messages = <<appended'[Len(appended')]>>]_vars

\* A stopped conversation that began with the SYSTEM message was started
\* again with persona messages in its list: no second SYSTEM message.
C37_Witness ==
    /\ last.op = "start" /\ last.status = 200 /\ nextLoop > 1
    /\ Len(state.messages) > 1
    /\ state.messages[1].entity = "SYSTEM"
    /\ state.messages[Len(state.messages)].entity # "SYSTEM"
    /\ nextId > MAX_MESSAGES

\* ------------------------------------------------- the viewer (main.ts)
\* loadInitialState: the conversation element is emptied and every message
\* of the snapshot is displayed and its id recorded; the counter is set to
\* totalExchanges.  displayedIds is not cleared.
loadInitialState(v, snapshot) ==
    LET ids == [i \in 1..Len(snapshot.messages) |-> snapshot.messages[i].id]
    IN  [v EXCEPT !.loaded = TRUE,
                  !.shown = ids,
                  !.displayedIds = @ \cup {ids[i] : i \in 1..Len(ids)},
                  !.exchangeCount = snapshot.totalExchanges]

\* handleStreamEvent: a message not yet recorded is displayed and counted;
\* reset empties the element, the ids and the counter; status and viewers
\* touch other elements.
handleStreamEvent(v, e) ==
    IF e.type = "message"
    THEN IF e.id \in v.displayedIds THEN v
         ELSE [v EXCEPT !.shown = Append(@, e.id),
                        !.displayedIds = @ \cup {e.id},
                        !.exchangeCount = @ + 1]
    ELSE IF e.type = "reset"
    THEN [v EXCEPT !.shown = <<>>, !.displayedIds = {}, !.exchangeCount = 0]
    ELSE v

\* What a step of the browser leaves alone on the server.
ServerUnchanged ==
    UNCHANGED <<env, gallery, clients, nextClient, received, phase, state,
                file, conversationInterval, loops, nextLoop, nextId,
                nextImageIsAlpha, imageDue, hour, calendar, localArchives,
                remoteArchives, archiveRuns, cache, appended>>

\* init() and the reconnect timer: GET /api/state is answered and
\* loadInitialState runs on the answer, before the stream is opened.
ViewerLoads ==
    /\ phase = "listening"
    /\ viewer.conn = 0
    /\ viewer' = loadInitialState(viewer, StateSnapshot(state))
    /\ emitted' = <<>>
    /\ last' = Step("viewerLoad", 200, 0, TRUE)
    /\ ServerUnchanged

\* connectToStream: new EventSource, accepted by GET /api/stream.
ViewerConnects ==
    /\ viewer.loaded /\ viewer.conn = 0
    /\ Subscribe
    /\ viewer' = [viewer EXCEPT !.conn = nextClient + 1, !.handled = 0]

\* eventSource.onmessage for the next event written to the connection.
ViewerHandles ==
    /\ viewer.conn # 0
    /\ viewer.handled < Len(received[viewer.conn])
    /\ viewer' = [handleStreamEvent(viewer,
                                    received[viewer.conn][viewer.handled + 1])
                    EXCEPT !.handled = @ + 1]
    /\ emitted' = <<>>
    /\ last' = Step("viewerEvent", 0, 0, TRUE)
    /\ ServerUnchanged

\* The stream breaks: the server's close handler runs, and the viewer will
\* load the state again before it reconnects.
ViewerDisconnects ==
    /\ viewer.conn # 0
    /\ Unsubscribe(viewer.conn)
    /\ viewer' = [viewer EXCEPT !.conn = 0]

\* No connection has been written MaxEvents events yet.
EventsBelowBound == \A c \in Connections : Len(received[c]) < MaxEvents

\* The scheduler with start and reset, and one browser.
NextViewer ==
    \/ StartServer
    \/ \E code \in ValidCodes : ApiStart(code)
    \/ \E code \in ValidCodes : EventsBelowBound /\ ApiReset(code)
    \/ \E l \in LoopIds : TimerFires(l)
    \/ \E l \in LoopIds : ResponseArrives(l, "text")
    \/ ViewerLoads
    \/ ViewerConnects
    \/ ViewerHandles
    \/ ViewerDisconnects

InitViewer == BootWith(AdminMaxStarts, AdminMaxTurns, HubEnv)

ViewerSpec == InitViewer /\ [][NextViewer]_vars

\* The viewer has handled every event written to its stream.
ViewerUpToDate ==
    /\ viewer.loaded /\ viewer.conn # 0
    /\ viewer.handled = Len(received[viewer.conn])

\* C38: a viewer that loaded the initial state and has handled the stream
\* events written to it shows each message id at most once and an exchange
\* counter equal to the server's totalExchanges.
C38_ViewerMatchesServer ==
    ViewerUpToDate =>
        /\ \A i, j \in 1..Len(viewer.shown) :
               viewer.shown[i] = viewer.shown[j] => i = j
        /\ viewer.exchangeCount = state.totalExchanges

====
